---------------------------- MODULE Spec2Model ----------------------------
(***************************************************************************)
(* A model of the Hessian 2.0 codec of serde_hessian (crate hessian_rs):   *)
(* the Serializer of src/src/ser.rs, the Deserializer of src/src/de.rs and *)
(* the tag table of src/src/constant.rs.                                   *)
(*                                                                         *)
(* Representation of the Rust data:                                        *)
(*   u8         a number in 0..255                                         *)
(*   i32        a number in -2^31..2^31-1                                  *)
(*   u32        [hi, lo], two 16-bit halves (2^32-1 is no TLC number)      *)
(*   i64        [hi, lo], two i32 words: hi the signed high word, lo the   *)
(*              low word read as an i32 bit pattern                        *)
(*   f64        a whole number in the i32 range ("int"), or what the       *)
(*              decoder read and did not interpret ("milli", "bits")       *)
(*   String     the sequence of its UTF-8 bytes                            *)
(*   Vec<u8>    a sequence of u8                                           *)
(*   HashMap    the sequence of its entries <<key, value>> in the order    *)
(*              its iterator yields them; two maps are the same map when   *)
(*              they hold the same set of entries                          *)
(***************************************************************************)
EXTENDS Integers, Sequences, FiniteSets, TLC

VARIABLES
    ser,        \* the Serializer: writer, type_cache, classes_cache, status
    de,         \* the Deserializer: buffer, pos, type_references, class_references
    phase,      \* which part of a session the state is in
    inputs,     \* the calls made on the serializer, in order, with their effect
    outputs     \* the results of the read_value calls made, in order

vars == <<ser, de, phase, inputs, outputs>>

---------------------------------------------------------------------------
(* Fixed-width integers                                                    *)

Pow2(k) == 2 ^ k

I32_MAX == 2147483647
I32_MIN == -I32_MAX - 1

\* `x as u8` of an integer: the low 8 bits.
AsU8(x) == x % 256

\* `x >> k` of a signed integer: the arithmetic shift.
Shr(x, k) == x \div Pow2(k)

\* `x as u16` of an unsigned integer: the low 16 bits.
AsU16(x) == x % 65536

\* i8 / i16 / i32 from big-endian bytes (i16::from_be_bytes, read_i32::<BigEndian>).
I8From_Unsigned(b) == b
I8From(b) == IF b >= 128 THEN b - 256 ELSE b
I16FromBe(b1, b0) == I8From(b1) * 256 + b0
I32FromBe(b3, b2, b1, b0) == I8From(b3) * 16777216 + b2 * 65536 + b1 * 256 + b0

\* The four big-endian bytes of an i32 (write_i32::<BigEndian>, to_be_bytes).
I32ToBe(v) == << Shr(v, 24) % 256, Shr(v, 16) % 256, Shr(v, 8) % 256, v % 256 >>

\* The two big-endian bytes of a u16 (write_u16::<BigEndian>).
U16ToBe(v) == << (v \div 256) % 256, v % 256 >>

\* i64 as two i32 words.
I64(hi, lo) == [hi |-> hi, lo |-> lo]
\* `x as i64` of an i32: sign extension.
I64FromI32(x) == I64(IF x < 0 THEN -1 ELSE 0, x)
\* Whether an i64 lies in the i32 range, and then its value.
I64FitsI32(l) == (l.hi = 0 /\ l.lo >= 0) \/ (l.hi = -1 /\ l.lo < 0)
\* The eight big-endian bytes of an i64.
I64ToBe(l) == I32ToBe(l.hi) \o I32ToBe(l.lo)
I64FromBe(b) == I64(I32FromBe(b[1], b[2], b[3], b[4]), I32FromBe(b[5], b[6], b[7], b[8]))

\* u32 as two 16-bit halves; `as i32` and `as u32` keep the bit pattern.
U32(hi, lo) == [hi |-> hi, lo |-> lo]
U32AsI32(u) == (IF u.hi >= 32768 THEN u.hi - 65536 ELSE u.hi) * 65536 + u.lo
\* `as u32` that keeps the value of a non-negative i32 only.
I32AsU32_Clamped(x) == IF x < 0 THEN U32(0, 0) ELSE U32(Shr(x, 16), x % 65536)
I32AsU32(x) == U32(Shr(x, 16) % 65536, x % 65536)

---------------------------------------------------------------------------
(* The value model (src/src/value.rs)                                      *)

\* One record shape for every variant, so that any two values compare.
Val(k, a, h, b, t, xs) == [k |-> k, a |-> a, h |-> h, b |-> b, t |-> t, xs |-> xs]

VNull == Val("Null", 0, 0, <<>>, <<>>, <<>>)
VBool(x) == Val("Bool", IF x THEN 1 ELSE 0, 0, <<>>, <<>>, <<>>)
VInt(n) == Val("Int", n, 0, <<>>, <<>>, <<>>)
VLong(l) == Val("Long", l.lo, l.hi, <<>>, <<>>, <<>>)
VDate(l) == Val("Date", l.lo, l.hi, <<>>, <<>>, <<>>)
VRef(u) == Val("Ref", u.lo, u.hi, <<>>, <<>>, <<>>)
\* Double: h names the form (0 "int": the whole number a; 1 "milli": a * 0.001;
\* 2 "bits": the IEEE-754 bytes b).
VDouble(n) == Val("Double", n, 0, <<>>, <<>>, <<>>)
VDoubleMilli(n) == Val("Double", n, 1, <<>>, <<>>, <<>>)
VDoubleBits(b) == Val("Double", 0, 2, b, <<>>, <<>>)
VBytes(b) == Val("Bytes", 0, 0, b, <<>>, <<>>)
VString(s) == Val("String", 0, 0, s, <<>>, <<>>)
\* List and Map: t is <<>> (Untyped) or <<name>> (Typed).
VList(t, xs) == Val("List", 0, 0, <<>>, t, xs)
VMap(t, entries) == Val("Map", 0, 0, <<>>, t, entries)

\* The i64 of a Long or Date, the u32 of a Ref.
LongOf(v) == I64(v.h, v.a)
RefOf(v) == U32(v.h, v.a)

\* List::type / Map::type: Some(name) or None, as <<name>> or <<>>.
type(v) == v.t

Definition(name, fields) == [name |-> name, fields |-> fields]

Min(a, b) == IF a <= b THEN a ELSE b

\* `let x = ..; K`: the rest K of a method, given the value x it computed.
With(x, K(_)) == K(x)

\* What one or more iterations of a loop give: the control state after them and
\* the bytes they wrote or pushed.
LoopResult(c, out) == [c |-> c, out |-> out]
\* Iterations l, then the iterations f from the control state l left.
LoopJoin(l, r) == LoopResult(r.c, l.out \o r.out)
LoopThen(l, f) == LoopJoin(l, f[l.c])

---------------------------------------------------------------------------
(* The Serializer (src/src/ser.rs)                                         *)

\* The chunk limit of serialize_string, in characters, and the chunk size of
\* serialize_binary, in bytes.
MAX_CHUNK_BYTE_SIZE == 32768
BINARY_CHUNK_SIZE == 65535

\* Serializer::new.  checks: whether the build traps integer overflow (a debug
\* build does, a release build wraps).  st: "ok", or "panic" once a call panicked.
NewSerializer(checks) ==
    [writer |-> <<>>, type_cache |-> <<>>, classes_cache |-> <<>>,
     st |-> "ok", checks |-> checks]

\* writer.write_all / write_u8 / write_u16: nothing is written after a panic.
Write(s, bytes) == IF s.st = "ok" THEN [s EXCEPT !.writer = @ \o bytes] ELSE s
Panic(s) == [s EXCEPT !.st = "panic"]

\* IndexSet::get_index_of / IndexMap::get_index_of: the 0-based index, or -1 (None).
get_index_of(seq, x) ==
    IF \E i \in 1..Len(seq) : seq[i] = x
    THEN (CHOOSE i \in 1..Len(seq) : seq[i] = x) - 1
    ELSE -1

\* IndexSet::insert: appends unless the element is present.
IndexSetInsert(seq, x) == IF get_index_of(seq, x) >= 0 THEN seq ELSE Append(seq, x)

\* IndexMap::insert(def.name, def): appends, or replaces the value kept under the name.
IndexMapInsert(seq, def) ==
    LET names == [i \in 1..Len(seq) |-> seq[i].name]
        inx == get_index_of(names, def.name)
    IN IF inx >= 0 THEN [seq EXCEPT ![inx + 1] = def] ELSE Append(seq, def)

\* The `bytes` of serialize_int.
int_bytes(v) ==
    IF v >= -16 /\ v <= 47 THEN << AsU8(\h90 + v) >>
    ELSE IF v >= -2048 /\ v <= 2047
    THEN << AsU8((Shr(v, 8) % 256) + \hc8), v % 256 >>
    ELSE IF v >= -262144 /\ v <= 262143
    THEN << AsU8((Shr(v, 16) % 256) + \hd4), Shr(v, 8) % 256, v % 256 >>
    ELSE << 73 >> \o I32ToBe(v)

serialize_int(s, v) == Write(s, int_bytes(v))

\* The `bytes` of serialize_long with the one-byte range of serialize_int.
long_bytes_IntRange(l) ==
    IF I64FitsI32(l)
    THEN LET v == l.lo
         IN IF v >= -16 /\ v <= 47 THEN << AsU8(\he0 + v) >>
            ELSE IF v >= -2048 /\ v <= 2047
            THEN << (Shr(v, 8) + \hf8) % 256, v % 256 >>
            ELSE IF v >= -262144 /\ v <= 262143
            THEN << AsU8(Shr(v, 16) + \h3c), Shr(v, 8) % 256, v % 256 >>
            ELSE << \h59 >> \o I32ToBe(v)
    ELSE << 76 >> \o I64ToBe(l)

\* The `bytes` of serialize_long; the ranges are matched on the i64.
long_bytes(l) ==
    IF I64FitsI32(l)
    THEN LET v == l.lo
         IN IF v >= -8 /\ v <= 15 THEN << AsU8(\he0 + v) >>
            ELSE IF v >= -2048 /\ v <= 2047
            THEN << (Shr(v, 8) + \hf8) % 256, v % 256 >>
            ELSE IF v >= -262144 /\ v <= 262143
            THEN << AsU8(Shr(v, 16) + \h3c), Shr(v, 8) % 256, v % 256 >>
            ELSE << \h59 >> \o I32ToBe(v)
    ELSE << 76 >> \o I64ToBe(l)

serialize_long(s, l) == Write(s, long_bytes(l))

serialize_date(s, d) == Write(Write(s, << \h4a >>), I64ToBe(d))

serialize_null(s) == Write(s, << 78 >>)

serialize_bool(s, value) == Write(s, << IF value THEN 84 ELSE 70 >>)

serialize_ref(s, ref_num) == serialize_int(Write(s, << \h51 >>), U32AsI32(ref_num))

\* serialize_double of a whole double v in the i32 range: v.trunc() as i32 is v
\* and (int_v as f64 - v).abs() is 0, so the first branch is taken.
serialize_double(s, v) ==
    LET int_v == v
    IN IF int_v = 0 THEN Write(s, << \h5b >>)
       ELSE IF int_v = 1 THEN Write(s, << \h5c >>)
       ELSE IF int_v >= -128 /\ int_v <= 127
       THEN Write(Write(s, << \h5d >>), << AsU8(int_v) >>)
       ELSE IF int_v >= -32768 /\ int_v <= 32767
       THEN Write(Write(s, << \h5e >>), U16ToBe(AsU16(int_v)))
       ELSE s

\* The chunk loop of serialize_binary from byte offset off on:
\* for (last, chunk) in v.chunks(0xffff).identify_last().
RECURSIVE binary_chunks(_, _, _)
binary_chunks(s, v, off) ==
    IF off >= Len(v) THEN s
    ELSE LET end == Min(off + BINARY_CHUNK_SIZE, Len(v))
             flag == IF end = Len(v) THEN 66 ELSE 65
             len_bytes == U16ToBe(AsU16(Len(v)))
             s1 == Write(Write(Write(s, << flag >>), len_bytes), SubSeq(v, off + 1, end))
         IN binary_chunks(s1, v, end)

\* v.len() - 0x20 is a usize subtraction that underflows for every v.len() < 16:
\* it panics where overflow is trapped and wraps to 2^64 + len - 0x20 elsewhere.
serialize_binary(s, v) ==
    IF Len(v) < 16
    THEN IF s.checks THEN Panic(s)
         ELSE Write(Write(s, << AsU8(Len(v) - \h20) >>), v)
    ELSE binary_chunks(s, v, 0)

\* The control state of the loop of serialize_string.
StringLoopState == [i : Nat, len : Nat, offset : Nat, last : Nat, st : {"ok", "panic"}]

\* writer.write_all(&bytes[from..to]): the slice panics when from > to or to > len.
SliceOk(bytes, from, to) == from <= to /\ to <= Len(bytes)

\* One iteration of `while i < bytes.len()`: i after the character at c.i, then
\* the chunk written once len reaches the limit.
string_loop_chunk(bytes, c, len, i) ==
    IF len >= MAX_CHUNK_BYTE_SIZE
    THEN IF SliceOk(bytes, c.offset, i - c.last)
         THEN LoopResult([i |-> i, len |-> 0, offset |-> c.offset + i, last |-> i,
                          st |-> "ok"],
                         << 82 >> \o U16ToBe(AsU16(len))
                             \o SubSeq(bytes, c.offset + 1, i - c.last))
         ELSE LoopResult([c EXCEPT !.i = i, !.len = len, !.st = "panic"],
                         << 82 >> \o U16ToBe(AsU16(len)))
    ELSE LoopResult([c EXCEPT !.i = i, !.len = len], << >>)

string_loop_body(bytes, c) ==
    With(bytes[c.i + 1], LAMBDA byte :
    string_loop_chunk(bytes, c, c.len + 1,
        IF byte >= 128
        THEN IF byte \div 32 = 6 THEN c.i + 2
             ELSE IF byte \div 16 = 14 THEN c.i + 3
             ELSE c.i + 4
        ELSE c.i + 1))

\* The loop of serialize_string, run from the control state c0 for at most k0
\* iterations (an iteration advances i, so Len(bytes) iterations end it).
string_loop(bytes, k0, c0) ==
    LET Run[k \in Nat] == [c \in StringLoopState |->
            IF k = 0 THEN LoopResult(c, << >>)
            ELSE IF k = 1
            THEN IF c.st = "ok" /\ c.i < Len(bytes)
                 THEN string_loop_body(bytes, c)
                 ELSE LoopResult(c, << >>)
            ELSE LoopThen(Run[k \div 2][c], Run[k - (k \div 2)])]
    IN  Run[k0][c0]

\* The header that follows the loop: `match len`.
string_tail_head(len) ==
    IF len <= 31 THEN << AsU8(len) >>
    ELSE IF len <= 1023 THEN << AsU8(\h30 + (Shr(len, 8) % 256)), len % 256 >>
    ELSE << 83 >> \o U16ToBe(AsU16(len))

\* What follows the loop of serialize_string, s being the serializer after the
\* loop and c the control state it left.
string_tail(s, bytes, c) ==
    IF c.st = "panic" THEN Panic(s)
    ELSE IF SliceOk(bytes, c.offset, c.i - c.last)
    THEN Write(s, string_tail_head(c.len) \o SubSeq(bytes, c.offset + 1, c.i - c.last))
    ELSE Panic(Write(s, string_tail_head(c.len)))

serialize_string(s, v) ==
    IF s.st # "ok" THEN s
    ELSE With(string_loop(v, Len(v),
                  [i |-> 0, len |-> 0, offset |-> 0, last |-> 0, st |-> "ok"]),
         LAMBDA run : string_tail(Write(s, run.out), v, run.c))

\* type_cache.insert(String::from(tp)), once serialize_string(tp) returned.
type_cache_insert(s, tp) ==
    IF s.st = "ok" THEN [s EXCEPT !.type_cache = IndexSetInsert(@, tp)] ELSE s

\* write_type without the lookup in type_cache.
write_type_NoLookup(s, tp) == type_cache_insert(serialize_string(s, tp), tp)

write_type(s, tp) ==
    With(get_index_of(s.type_cache, tp), LAMBDA inx :
    IF inx >= 0 THEN serialize_int(s, inx)
    ELSE type_cache_insert(serialize_string(s, tp), tp))

\* write_list_begin with the short form taken up to length 8.
write_list_begin_UpTo8(s, length, tp) ==
    IF length <= 8
    THEN IF tp # << >>
         THEN write_type(Write(s, << AsU8(\h70 + length) >>), tp[1])
         ELSE Write(s, << AsU8(\h78 + length) >>)
    ELSE LET s1 == IF tp # << >>
                   THEN write_type(Write(s, << \h56 >>), tp[1])
                   ELSE Write(s, << \h58 >>)
         IN  serialize_int(s1, length)

\* tp: <<>> (None) or <<name>> (Some(name)).
write_list_begin(s, length, tp) ==
    IF length <= 7
    THEN IF tp # << >>
         THEN write_type(Write(s, << AsU8(\h70 + length) >>), tp[1])
         ELSE Write(s, << AsU8(\h78 + length) >>)
    ELSE LET s1 == IF tp # << >>
                   THEN write_type(Write(s, << \h56 >>), tp[1])
                   ELSE Write(s, << \h58 >>)
         IN  serialize_int(s1, length)

write_map_start(s, tp) ==
    IF tp # << >> THEN write_type(Write(s, << 77 >>), tp[1])
    ELSE Write(s, << 72 >>)

RECURSIVE serialize_value(_, _)
RECURSIVE serialize_items(_, _, _)
RECURSIVE serialize_entries(_, _, _)

\* for i in list.iter() { self.serialize_value(i)?; }, from the k-th element on.
serialize_items(s, xs, k) ==
    IF k > Len(xs) THEN s
    ELSE serialize_items(serialize_value(s, xs[k]), xs, k + 1)

\* for (k, v) in map.iter() { serialize_value(k)?; serialize_value(v)?; }
serialize_entries(s, es, k) ==
    IF k > Len(es) THEN s
    ELSE serialize_entries(
             serialize_value(serialize_value(s, es[k][1]), es[k][2]), es, k + 1)

serialize_map(s, map) ==
    Write(serialize_entries(write_map_start(s, type(map)), map.xs, 1), << 90 >>)

serialize_list_Terminated(s, list) ==
    Write(serialize_items(write_list_begin(s, Len(list.xs), type(list)), list.xs, 1),
          << 90 >>)

serialize_list(s, list) ==
    serialize_items(write_list_begin(s, Len(list.xs), type(list)), list.xs, 1)

serialize_value(s, value) ==
    IF s.st # "ok" THEN s
    ELSE CASE value.k = "Int" -> serialize_int(s, value.a)
           [] value.k = "Bytes" -> serialize_binary(s, value.b)
           [] value.k = "String" -> serialize_string(s, value.b)
           [] value.k = "Bool" -> serialize_bool(s, value.a = 1)
           [] value.k = "Null" -> serialize_null(s)
           [] value.k = "Long" -> serialize_long(s, LongOf(value))
           [] value.k = "Date" -> serialize_date(s, LongOf(value))
           [] value.k = "Double" -> serialize_double(s, value.a)
           [] value.k = "Ref" -> serialize_ref(s, RefOf(value))
           [] value.k = "List" -> serialize_list(s, value)
           [] value.k = "Map" -> serialize_map(s, value)

\* classes_cache.insert(def.name.clone(), def.clone()) and Ok(classes_cache.len() - 1),
\* once the definition is written.
classes_cache_insert(s, def) ==
    IF s.st = "ok"
    THEN With(IndexMapInsert(s.classes_cache, def), LAMBDA cache :
         [s |-> [s EXCEPT !.classes_cache = cache], ret |-> Len(cache) - 1])
    ELSE [s |-> s, ret |-> -1]

\* write_definition without the lookup in classes_cache.
write_definition_NoLookup(s, def) ==
    classes_cache_insert(
        serialize_items(
            serialize_int(serialize_string(Write(s, << 67 >>), def.name),
                          Len(def.fields)),
            [i \in 1..Len(def.fields) |-> VString(def.fields[i])], 1),
        def)

\* write_definition: the serializer after the call and the index it returns.
write_definition(s, def) ==
    With(get_index_of([i \in 1..Len(s.classes_cache) |-> s.classes_cache[i].name],
                      def.name), LAMBDA inx :
    IF inx >= 0 THEN [s |-> s, ret |-> inx]
    ELSE classes_cache_insert(
             serialize_items(
                 serialize_int(serialize_string(Write(s, << 67 >>), def.name),
                               Len(def.fields)),
                 [i \in 1..Len(def.fields) |-> VString(def.fields[i])], 1),
             def))

---------------------------------------------------------------------------
(* The tag table (src/src/constant.rs)                                     *)

Codec_Untyped(k, sub, c, typed, length) ==
    [k |-> k, sub |-> sub, c |-> c, typed |-> FALSE, length |-> length]

Codec(k, sub, c, typed, length) ==
    [k |-> k, sub |-> sub, c |-> c, typed |-> typed, length |-> length]

\* ByteCodecType::from, the match arms in source order.
ByteCodecType_from(c) ==
    CASE c = 84 -> Codec("True", "", c, FALSE, 0)
      [] c = 70 -> Codec("False", "", c, FALSE, 0)
      [] c = 78 -> Codec("Null", "", c, FALSE, 0)
      [] c = \h51 -> Codec("Ref", "", c, FALSE, 0)
      [] c = 77 -> Codec("Map", "", c, TRUE, 0)
      [] c = 72 -> Codec("Map", "", c, FALSE, 0)
      [] c = \h55 -> Codec("List", "VarLength", c, TRUE, 0)
      [] c = 86 -> Codec("List", "FixedLength", c, TRUE, 0)
      [] c = \h57 -> Codec("List", "VarLength", c, FALSE, 0)
      [] c = \h58 -> Codec("List", "FixedLength", c, FALSE, 0)
      [] c >= \h70 /\ c <= \h77 -> Codec("List", "ShortFixedLength", c, TRUE, c - \h70)
      [] c >= \h78 /\ c <= \h7f -> Codec("List", "ShortFixedLength", c, FALSE, c - \h78)
      [] c = 79 -> Codec("Object", "Normal", c, FALSE, 0)
      [] c >= \h60 /\ c <= \h6f -> Codec("Object", "Compact", c, FALSE, 0)
      [] c = 67 -> Codec("Definition", "", c, FALSE, 0)
      [] c >= \h80 /\ c <= \hbf -> Codec("Int", "Direct", c, FALSE, 0)
      [] c >= \hc0 /\ c <= \hcf -> Codec("Int", "Byte", c, FALSE, 0)
      [] c >= \hd0 /\ c <= \hd7 -> Codec("Int", "Short", c, FALSE, 0)
      [] c = 73 -> Codec("Int", "Normal", c, FALSE, 0)
      [] c >= \hd8 /\ c <= \hef -> Codec("Long", "Direct", c, FALSE, 0)
      [] c >= \hf0 /\ c <= \hff -> Codec("Long", "Byte", c, FALSE, 0)
      [] c >= \h38 /\ c <= \h3f -> Codec("Long", "Short", c, FALSE, 0)
      [] c = \h59 -> Codec("Long", "Int32", c, FALSE, 0)
      [] c = 76 -> Codec("Long", "Normal", c, FALSE, 0)
      [] c = \h5b -> Codec("Double", "Zero", c, FALSE, 0)
      [] c = \h5c -> Codec("Double", "One", c, FALSE, 0)
      [] c = \h5d -> Codec("Double", "Byte", c, FALSE, 0)
      [] c = \h5e -> Codec("Double", "Short", c, FALSE, 0)
      [] c = \h5f -> Codec("Double", "Float", c, FALSE, 0)
      [] c = 68 -> Codec("Double", "Normal", c, FALSE, 0)
      [] c = \h4a -> Codec("Date", "Millisecond", c, FALSE, 0)
      [] c = \h4b -> Codec("Date", "Minute", c, FALSE, 0)
      [] c >= \h20 /\ c <= \h2f -> Codec("Binary", "Short", c, FALSE, 0)
      [] c >= \h34 /\ c <= \h37 -> Codec("Binary", "TwoOctet", c, FALSE, 0)
      [] c = 66 \/ c = \h41 -> Codec("Binary", "Long", c, FALSE, 0)
      [] c >= \h00 /\ c <= \h1f -> Codec("String", "Compact", c, FALSE, 0)
      [] c >= \h30 /\ c <= \h33 -> Codec("String", "Small", c, FALSE, 0)
      [] c = \h52 -> Codec("String", "Chunk", c, FALSE, 0)
      [] c = 83 -> Codec("String", "FinalChunk", c, FALSE, 0)
      [] OTHER -> Codec("Unknown", "", c, FALSE, 0)

---------------------------------------------------------------------------
(* The Deserializer (src/src/de.rs)                                        *)

\* Deserializer::new.
NewDeserializer(rd) ==
    [buffer |-> rd, pos |-> 0, type_references |-> << >>, class_references |-> << >>]

\* Result<T>: Ok(val) or Err(err), with the deserializer as the call left it.
\* ub: whether the call formatted a String that is not UTF-8, which
\* String::from_utf8_unchecked leaves undefined.
Ok(d, val) == [ok |-> TRUE, err |-> "", val |-> val, d |-> d, ub |-> FALSE]
Err(d, err) == [ok |-> FALSE, err |-> err, val |-> VNull, d |-> d, ub |-> FALSE]

\* `_ => self.error(kind)` over a failed call r: the error of r is replaced.
ErrInstead(r, err) == [Err(r.d, err) EXCEPT !.ub = r.ub]

\* Whether bytes from offset i on are well-formed UTF-8, the safety condition
\* of String::from_utf8_unchecked.
RECURSIVE Utf8ValidFrom(_, _)
Utf8ValidFrom(bytes, i) ==
    IF i > Len(bytes) THEN TRUE
    ELSE IF bytes[i] <= \h7f THEN Utf8ValidFrom(bytes, i + 1)
    ELSE IF bytes[i] >= \hc2 /\ bytes[i] <= \hdf
    THEN /\ i + 1 <= Len(bytes)
         /\ bytes[i + 1] >= \h80 /\ bytes[i + 1] <= \hbf
         /\ Utf8ValidFrom(bytes, i + 2)
    ELSE IF bytes[i] >= \he0 /\ bytes[i] <= \hef
    THEN /\ i + 2 <= Len(bytes)
         /\ bytes[i + 1] >= (IF bytes[i] = \he0 THEN \ha0 ELSE \h80)
         /\ bytes[i + 1] <= (IF bytes[i] = \hed THEN \h9f ELSE \hbf)
         /\ bytes[i + 2] >= \h80 /\ bytes[i + 2] <= \hbf
         /\ Utf8ValidFrom(bytes, i + 3)
    ELSE IF bytes[i] >= \hf0 /\ bytes[i] <= \hf4
    THEN /\ i + 3 <= Len(bytes)
         /\ bytes[i + 1] >= (IF bytes[i] = \hf0 THEN \h90 ELSE \h80)
         /\ bytes[i + 1] <= (IF bytes[i] = \hf4 THEN \h8f ELSE \hbf)
         /\ bytes[i + 2] >= \h80 /\ bytes[i + 2] <= \hbf
         /\ bytes[i + 3] >= \h80 /\ bytes[i + 3] <= \hbf
         /\ Utf8ValidFrom(bytes, i + 4)
    ELSE FALSE

Utf8Valid(bytes) == Utf8ValidFrom(bytes, 1)

\* Whether v.to_string() formats UTF-8 Strings only (Display for Value formats
\* the Strings of v, those of its elements and entries included).
RECURSIVE to_string_defined(_)
to_string_defined(v) ==
    IF v.k = "String" THEN Utf8Valid(v.b)
    ELSE IF v.k = "List" THEN \A i \in 1..Len(v.xs) : to_string_defined(v.xs[i])
    ELSE IF v.k = "Map"
    THEN \A i \in 1..Len(v.xs) :
             to_string_defined(v.xs[i][1]) /\ to_string_defined(v.xs[i][2])
    ELSE TRUE

\* self.error(ErrorKind::UnexpectedType(v.to_string())).
UnexpectedType(d, v) == [Err(d, "UnexpectedType") EXCEPT !.ub = ~to_string_defined(v)]

\* What a build can make of a call that ended as r: r itself, or, where the
\* call formatted a String that is not UTF-8, a panic of the formatting.
Outcomes(r) == IF r.ub THEN {r, [r EXCEPT !.ok = FALSE, !.err = "panic"]} ELSE {r}

\* Cursor::read_exact of k bytes (read_u8, read_i16, read_u16, read_i32, read_i64,
\* read_f64, read_exact): the bytes, or UnexpectedEof with the cursor at the end.
ReadExact(d, k) ==
    IF d.pos + k <= Len(d.buffer)
    THEN Ok([d EXCEPT !.pos = @ + k], SubSeq(d.buffer, d.pos + 1, d.pos + k))
    ELSE Err([d EXCEPT !.pos = Len(d.buffer)], "Io")

\* The `?` operator and the rest of the method: K(r) when r is Ok, else the
\* error is returned.
Try(r, K(_)) == IF r.ok THEN K(r) ELSE ErrInstead(r, r.err)

read_byte(d) == Try(ReadExact(d, 1), LAMBDA r : Ok(r.d, r.val[1]))

\* read_bytes(n): take(n).read_to_end reads what is left, up to n bytes, and fails
\* unless it read n.  A negative n stands for the usize 2^64 + n (an i16 cast).
read_bytes(d, n) ==
    IF n >= 0 /\ d.pos + n <= Len(d.buffer)
    THEN Ok([d EXCEPT !.pos = @ + n], SubSeq(d.buffer, d.pos + 1, d.pos + n))
    ELSE Err([d EXCEPT !.pos = Len(d.buffer)], "Io")

\* peek_byte: read_u8, then seek(SeekFrom::Current(-1)).
peek_byte_NoSeek(d) ==
    Try(ReadExact(d, 1), LAMBDA r : Ok(r.d, r.val[1]))

peek_byte(d) ==
    Try(ReadExact(d, 1), LAMBDA r : Ok([r.d EXCEPT !.pos = @ - 1], r.val[1]))

\* The chunk loop and the final match of read_long_binary, buf being what was read.
RECURSIVE read_long_binary_from(_, _, _)
read_long_binary_from(d, tag, buf) ==
    IF tag = \h41
    THEN Try(ReadExact(d, 2), LAMBDA l :
         Try(read_bytes(l.d, I16FromBe(l.val[1], l.val[2])), LAMBDA p :
         Try(read_byte(p.d), LAMBDA t :
         read_long_binary_from(t.d, t.val, buf \o p.val))))
    ELSE IF tag = 66
    THEN Try(ReadExact(d, 2), LAMBDA l :
         Try(read_bytes(l.d, I16FromBe(l.val[1], l.val[2])), LAMBDA p :
         Ok(p.d, VBytes(buf \o p.val))))
    ELSE IF tag >= \h20 /\ tag <= \h2f
    THEN Try(read_bytes(d, tag - \h20), LAMBDA p : Ok(p.d, VBytes(buf \o p.val)))
    ELSE IF tag >= \h34 /\ tag <= \h37
    THEN Try(read_byte(d), LAMBDA b :
         Try(read_bytes(b.d, I16FromBe(tag - \h34, b.val)), LAMBDA p :
         Ok(p.d, VBytes(buf \o p.val))))
    ELSE Ok(d, VBytes(buf))

read_long_binary(d, tag) == read_long_binary_from(d, tag, << >>)

read_binary(d, bin) ==
    IF bin.sub = "Short"
    THEN Try(read_bytes(d, bin.c - \h20), LAMBDA p : Ok(p.d, VBytes(p.val)))
    ELSE IF bin.sub = "TwoOctet"
    THEN Try(read_byte(d), LAMBDA b :
         Try(read_bytes(b.d, I16FromBe(bin.c - \h34, b.val)), LAMBDA p :
         Ok(p.d, VBytes(p.val))))
    ELSE read_long_binary(d, bin.c)

read_int(d, i) ==
    IF i.sub = "Direct" THEN Ok(d, VInt(i.c - \h90))
    ELSE IF i.sub = "Byte"
    THEN Try(read_byte(d), LAMBDA b2 :
         Ok(b2.d, VInt(I16FromBe(AsU8(i.c - \hc8), b2.val))))
    ELSE IF i.sub = "Short"
    THEN Try(read_bytes(d, 2), LAMBDA bs :
         Ok(bs.d, VInt(Shr(I32FromBe(AsU8(i.c - \hd4), bs.val[1], bs.val[2], 0), 8))))
    ELSE Try(ReadExact(d, 4), LAMBDA r :
         Ok(r.d, VInt(I32FromBe(r.val[1], r.val[2], r.val[3], r.val[4]))))

read_long(d, l) ==
    IF l.sub = "Direct" THEN Ok(d, VLong(I64FromI32(l.c - \he0)))
    ELSE IF l.sub = "Byte"
    THEN Try(read_byte(d), LAMBDA b2 :
         Ok(b2.d, VLong(I64FromI32(I16FromBe(AsU8(l.c - \hf8), b2.val)))))
    ELSE IF l.sub = "Short"
    THEN Try(read_bytes(d, 2), LAMBDA bs :
         Ok(bs.d, VLong(I64FromI32(
             Shr(I32FromBe(AsU8(l.c - \h3c), bs.val[1], bs.val[2], 0), 8)))))
    ELSE IF l.sub = "Int32"
    THEN Try(ReadExact(d, 4), LAMBDA r :
         Ok(r.d, VLong(I64FromI32(I32FromBe(r.val[1], r.val[2], r.val[3], r.val[4])))))
    ELSE Try(ReadExact(d, 8), LAMBDA r : Ok(r.d, VLong(I64FromBe(r.val))))

read_double(d, tag) ==
    IF tag.sub = "Normal"
    THEN Try(ReadExact(d, 8), LAMBDA r : Ok(r.d, VDoubleBits(r.val)))
    ELSE IF tag.sub = "Zero" THEN Ok(d, VDouble(0))
    ELSE IF tag.sub = "One" THEN Ok(d, VDouble(1))
    ELSE IF tag.sub = "Byte"
    THEN Try(ReadExact(d, 1), LAMBDA r : Ok(r.d, VDouble(I8From(r.val[1]))))
    ELSE IF tag.sub = "Short"
    THEN Try(ReadExact(d, 2), LAMBDA r : Ok(r.d, VDouble(I16FromBe(r.val[1], r.val[2]))))
    ELSE Try(ReadExact(d, 4), LAMBDA r :
         Ok(r.d, VDoubleMilli(I32FromBe(r.val[1], r.val[2], r.val[3], r.val[4]))))

\* `x as i64 * 60000` of an i32 x, in 16-bit limbs: x = xh * 2^16 + xl and
\* 60000 = 234 * 256 + 96, so that no partial product leaves the 32-bit range.
MinutesToMillis(x) ==
    LET xh == Shr(x, 16)
        xl == x % 65536
        bb == xl * 234
        t0 == xl * 96 + (bb % 256) * 256
        m == xh * 60000 + (bb \div 256) + (t0 \div 65536)
    IN  I64(Shr(m, 16), U32AsI32(U32(m % 65536, t0 % 65536)))

read_date(d, dt) ==
    IF dt.sub = "Millisecond"
    THEN Try(ReadExact(d, 8), LAMBDA r : Ok(r.d, VDate(I64FromBe(r.val))))
    ELSE Try(ReadExact(d, 4), LAMBDA r :
         Ok(r.d, VDate(MinutesToMillis(I32FromBe(r.val[1], r.val[2], r.val[3], r.val[4])))))

\* The control state of the loop of read_utf8_string.
Utf8LoopState == [pos : Nat, len : Nat, ok : BOOLEAN]

\* One iteration of `while len > 0`.
read_utf8_body(buffer, c) ==
    With(ReadExact([buffer |-> buffer, pos |-> c.pos], 1), LAMBDA b :
    IF ~b.ok THEN LoopResult([c EXCEPT !.pos = b.d.pos, !.ok = FALSE], << >>)
    ELSE With(b.val[1], LAMBDA byte :
         IF byte <= \h7f
         THEN LoopResult([c EXCEPT !.pos = b.d.pos, !.len = @ - 1], << byte >>)
         ELSE IF byte >= \hc2 /\ byte <= \hf4
         THEN With(ReadExact(b.d, IF byte <= \hdf THEN 1 ELSE IF byte <= \hef THEN 2 ELSE 3),
              LAMBDA rest :
              IF rest.ok
              THEN LoopResult([c EXCEPT !.pos = rest.d.pos, !.len = @ - 1],
                              << byte >> \o rest.val)
              ELSE LoopResult([c EXCEPT !.pos = rest.d.pos, !.ok = FALSE], << >>))
         ELSE LoopResult([c EXCEPT !.pos = b.d.pos, !.len = @ - 1], << >>)))

\* read_utf8_string(len): Ok(s), or the error of a read past the end.  Run[k] is
\* k iterations of the loop, or as many as the loop makes.
read_utf8_string(d, len0) ==
    LET Run[k \in Nat] == [c \in Utf8LoopState |->
            IF k = 0 THEN LoopResult(c, << >>)
            ELSE IF k = 1
            THEN IF c.ok /\ c.len > 0
                 THEN read_utf8_body(d.buffer, c)
                 ELSE LoopResult(c, << >>)
            ELSE LoopThen(Run[k \div 2][c], Run[k - (k \div 2)])]
    IN  With(Run[len0][[pos |-> d.pos, len |-> len0, ok |-> TRUE]], LAMBDA run :
        IF run.c.ok THEN Ok([d EXCEPT !.pos = run.c.pos], run.out)
        ELSE Err([d EXCEPT !.pos = run.c.pos], "Io"))

RECURSIVE read_string_internal(_, _)
read_string_internal(d, tag) ==
    IF tag >= \h00 /\ tag <= \h1f THEN read_utf8_string(d, tag - \h00)
    ELSE IF tag >= \h30 /\ tag <= \h33
    THEN Try(read_byte(d), LAMBDA b :
         read_utf8_string(b.d, (tag - \h30) * 256 + b.val))
    ELSE IF tag = \h52
    THEN Try(ReadExact(d, 2), LAMBDA l :
         Try(read_utf8_string(l.d, l.val[1] * 256 + l.val[2]), LAMBDA s :
         Try(read_byte(s.d), LAMBDA t :
         Try(read_string_internal(t.d, t.val), LAMBDA n :
         Ok(n.d, s.val \o n.val)))))
    ELSE IF tag = \h53
    THEN Try(ReadExact(d, 2), LAMBDA l :
         read_utf8_string(l.d, l.val[1] * 256 + l.val[2]))
    ELSE Ok(d, << >>)

\* read_string: String::from_utf8_unchecked keeps the bytes as they are.
read_string(d, tag) ==
    Try(read_string_internal(d, tag), LAMBDA r : Ok(r.d, VString(r.val)))

\* HashMap::insert(key, val): replaces the value of an equal key, or adds the entry.
HashMapInsert(es, key, val) ==
    IF \E i \in 1..Len(es) : es[i][1] = key
    THEN [i \in 1..Len(es) |-> IF es[i][1] = key THEN << key, val >> ELSE es[i]]
    ELSE Append(es, << key, val >>)

RECURSIVE read_value(_)
RECURSIVE read_exact_length_list_internal(_, _, _)
RECURSIVE read_varlength_list_internal(_, _)
RECURSIVE read_varlength_map_internal(_, _)
RECURSIVE read_definition_fields(_, _, _)
RECURSIVE read_object_fields(_, _, _, _)

\* read_type that does not push the name it read.
read_type_NoPush(d) ==
    Try(read_value(d), LAMBDA r :
    IF r.val.k = "String"
    THEN Ok(r.d, r.val.b)
    ELSE IF r.val.k = "Int"
    THEN IF r.val.a >= 0 /\ r.val.a < Len(r.d.type_references)
         THEN Ok(r.d, r.d.type_references[r.val.a + 1])
         ELSE Err(r.d, "OutOfTypeRefRange")
    ELSE UnexpectedType(r.d, r.val))

\* read_type: Ok(name).  iter().nth(i as usize): a negative i is a usize past
\* every index.
read_type(d) ==
    Try(read_value(d), LAMBDA r :
    IF r.val.k = "String"
    THEN Ok([r.d EXCEPT !.type_references = Append(@, r.val.b)], r.val.b)
    ELSE IF r.val.k = "Int"
    THEN IF r.val.a >= 0 /\ r.val.a < Len(r.d.type_references)
         THEN Ok(r.d, r.d.type_references[r.val.a + 1])
         ELSE Err(r.d, "OutOfTypeRefRange")
    ELSE UnexpectedType(r.d, r.val))

\* for _ in 0..length { list.push(self.read_value()?) }, list being what was read.
\* A negative length stands for the usize 2^64 + length (an i32 cast).
read_exact_length_list_internal(d, length, list) ==
    IF length = 0 THEN Ok(d, list)
    ELSE Try(read_value(d), LAMBDA r :
         read_exact_length_list_internal(r.d, length - 1, Append(list, r.val)))

\* The loop without the read_byte that follows it.
read_varlength_list_internal_KeepsZ(d, list) ==
    Try(peek_byte(d), LAMBDA tag :
    IF tag.val = 90 THEN Ok(d, list)
    ELSE Try(read_value(d), LAMBDA r :
         read_varlength_list_internal(r.d, Append(list, r.val))))

\* while tag != b'Z' { list.push(self.read_value()?); tag = self.peek_byte()? }
\* self.read_byte()?
read_varlength_list_internal(d, list) ==
    Try(peek_byte(d), LAMBDA tag :
    IF tag.val = 90 THEN Try(read_byte(d), LAMBDA z : Ok(z.d, list))
    ELSE Try(read_value(d), LAMBDA r :
         read_varlength_list_internal(r.d, Append(list, r.val))))

read_varlength_map_internal(d, map) ==
    Try(peek_byte(d), LAMBDA tag :
    IF tag.val = 90 THEN Try(read_byte(d), LAMBDA z : Ok(z.d, map))
    ELSE Try(read_value(d), LAMBDA key :
         Try(read_value(key.d), LAMBDA val :
         read_varlength_map_internal(val.d, HashMapInsert(map, key.val, val.val)))))

\* The length of a fixed-length list: match self.read_value()? { Value::Int(l) => .. }
read_list_length(d) ==
    Try(read_value(d), LAMBDA r :
    IF r.val.k = "Int" THEN Ok(r.d, r.val.a) ELSE UnexpectedType(r.d, r.val))

\* The type of a typed list or map: <<name>>, and << >> where none is read.
read_type_of(d, typed) ==
    IF typed THEN Try(read_type(d), LAMBDA typ : Ok(typ.d, << typ.val >>))
    ELSE Ok(d, << >>)

read_list(d, list) ==
    Try(read_type_of(d, list.typed), LAMBDA typ :
    IF list.sub = "ShortFixedLength"
    THEN Try(read_exact_length_list_internal(typ.d, list.length, << >>), LAMBDA val :
         Ok(val.d, VList(typ.val, val.val)))
    ELSE IF list.sub = "VarLength"
    THEN Try(read_varlength_list_internal(typ.d, << >>), LAMBDA val :
         Ok(val.d, VList(typ.val, val.val)))
    ELSE Try(read_list_length(typ.d), LAMBDA length :
         Try(read_exact_length_list_internal(length.d, length.val, << >>), LAMBDA val :
         Ok(val.d, VList(typ.val, val.val)))))

read_map(d, typed) ==
    Try(read_type_of(d, typed), LAMBDA typ :
    Try(read_varlength_map_internal(typ.d, << >>), LAMBDA m :
    Ok(m.d, VMap(typ.val, m.val))))

read_ref(d) ==
    Try(read_value(d), LAMBDA r :
    IF r.val.k = "Int" THEN Ok(r.d, VRef(I32AsU32(r.val.a)))
    ELSE UnexpectedType(r.d, r.val))

\* for _ in 0..length { match self.read_value() { Ok(Value::String(s)) => .. } }
read_definition_fields(d, length, fields) ==
    IF length <= 0 THEN Ok(d, fields)
    ELSE With(read_value(d), LAMBDA r :
         IF ~r.ok THEN ErrInstead(r, "UnknownType")
         ELSE IF r.val.k # "String" THEN UnexpectedType(r.d, r.val)
         ELSE read_definition_fields(r.d, length - 1, Append(fields, r.val.b)))

read_definition_NoAppend(d) ==
    With(read_value(d), LAMBDA name :
    IF ~(name.ok /\ name.val.k = "String") THEN ErrInstead(name, "UnknownType")
    ELSE With(read_value(name.d), LAMBDA length :
         IF ~(length.ok /\ length.val.k = "Int") THEN ErrInstead(length, "UnknownType")
         ELSE Try(read_definition_fields(length.d, length.val.a, << >>), LAMBDA fields :
              Ok(fields.d, VNull))))

read_definition(d) ==
    With(read_value(d), LAMBDA name :
    IF ~(name.ok /\ name.val.k = "String") THEN ErrInstead(name, "UnknownType")
    ELSE With(read_value(name.d), LAMBDA length :
         IF ~(length.ok /\ length.val.k = "Int") THEN ErrInstead(length, "UnknownType")
         ELSE Try(read_definition_fields(length.d, length.val.a, << >>), LAMBDA fields :
              Ok([fields.d EXCEPT !.class_references =
                      Append(@, Definition(name.val.b, fields.val))], VNull))))

\* for k in definition.fields { let v = self.read_value()?; map.insert(String(k), v) }
read_object_fields(d, fields, k, map) ==
    IF k > Len(fields) THEN Ok(d, map)
    ELSE Try(read_value(d), LAMBDA v :
         read_object_fields(v.d, fields, k + 1,
             HashMapInsert(map, VString(fields[k]), v.val)))

\* read_object: Value::Map(map.clone().into()) is Map::Untyped, From<HashMap>;
\* class_references.get(i as usize): a negative i is a usize past every index.
read_object(d) ==
    Try(read_value(d), LAMBDA val :
    IF val.val.k # "Int" THEN UnexpectedType(val.d, val.val)
    ELSE IF ~(val.val.a >= 0 /\ val.val.a < Len(val.d.class_references))
    THEN Err(val.d, "OutOfDefinitionRange")
    ELSE Try(read_object_fields(val.d, val.d.class_references[val.val.a + 1].fields,
                                1, << >>), LAMBDA map :
         Ok(map.d, VMap(<< >>, map.val))))

read_value(d) ==
    Try(read_byte(d), LAMBDA v :
    With(ByteCodecType_from(v.val), LAMBDA t :
    CASE t.k = "Int" -> read_int(v.d, t)
      [] t.k = "Long" -> read_long(v.d, t)
      [] t.k = "Double" -> read_double(v.d, t)
      [] t.k = "Date" -> read_date(v.d, t)
      [] t.k = "Binary" -> read_binary(v.d, t)
      [] t.k = "String" -> read_string(v.d, t.c)
      [] t.k = "List" -> read_list(v.d, t)
      [] t.k = "Map" -> read_map(v.d, t.typed)
      [] t.k = "True" -> Ok(v.d, VBool(TRUE))
      [] t.k = "False" -> Ok(v.d, VBool(FALSE))
      [] t.k = "Null" -> Ok(v.d, VNull)
      [] t.k = "Definition" ->
           Try(read_definition(v.d), LAMBDA def : read_value(def.d))
      [] t.k = "Ref" -> read_ref(v.d)
      [] t.k = "Object" -> read_object(v.d)
      [] OTHER -> Err(v.d, "UnknownType")))

\* from_slice.
from_slice(v) == read_value(NewDeserializer(v))


---------------------------------------------------------------------------
(* The serde Serializer (src/serde-hessian/src/ser.rs)                     *)

\* What is serialized: an i32, a Vec, or a struct with its name and fs, the
\* sequence of its << key, value >> fields in declaration order; the elements
\* of a Vec are kept in fs with the key << >>.
SInt(n) == [k |-> "Int", a |-> n, name |-> << >>, fs |-> << >>]
SSeq(xs) == [k |-> "Seq", a |-> 0, name |-> << >>,
             fs |-> [i \in 1..Len(xs) |-> << << >>, xs[i] >>]]
SStruct(name, fs) == [k |-> "Struct", a |-> 0, name |-> name, fs |-> fs]

\* ValueSerializer::get_definition(name): Some(definition) or None, as
\* << definition >> or << >>.
get_definition(s, name) ==
    With(get_index_of([i \in 1..Len(s.classes_cache) |-> s.classes_cache[i].name], name),
         LAMBDA inx : IF inx >= 0 THEN << s.classes_cache[inx + 1] >> ELSE << >>)

\* ValueSerializer::write_object_start(def): 'O' and the index of the
\* definition in classes_cache, as test_struct shows it.
write_object_start(s, def) ==
    serialize_int(
        Write(s, << 79 >>),
        get_index_of([i \in 1..Len(s.classes_cache) |-> s.classes_cache[i].name], def.name))

\* ValueSerializer::extend_from_slice.
extend_from_slice(s, buf) == Write(s, buf)

\* StructSerializer::new.  st: "ok", "err" once a call returned an error,
\* "panic" once one panicked.
StructSerializer(name) ==
    [name |-> name, fields |-> << >>, inx |-> 0, buf |-> << >>, st |-> "ok"]

RECURSIVE serialize(_, _)
RECURSIVE serialize_elements(_, _, _)
RECURSIVE serialize_fields(_, _, _, _)

\* SerializeStruct::serialize_field.  definition.fields[self.inx] panics when
\* inx is past the cached fields; the value is serialized into buf by a new
\* Serializer.
serialize_field(s, self, key, value) ==
    With(get_definition(s, self.name), LAMBDA definition :
    IF definition # << >> /\ self.inx >= Len(definition[1].fields)
    THEN [self EXCEPT !.st = "panic"]
    ELSE IF definition # << >> /\ key # definition[1].fields[self.inx + 1]
    THEN [self EXCEPT !.st = "err"]
    ELSE With(serialize([NewSerializer(s.checks) EXCEPT !.writer = self.buf], value),
              LAMBDA inner :
              [self EXCEPT !.inx = IF definition # << >> THEN @ + 1 ELSE @,
                           !.fields = IF definition = << >> THEN Append(@, key) ELSE @,
                           !.buf = inner.writer,
                           !.st = inner.st]))

\* SerializeStruct::end.
end(s, self) ==
    With(get_definition(s, self.name), LAMBDA cached :
    With(IF cached # << >> THEN cached[1] ELSE Definition(self.name, self.fields),
         LAMBDA def :
         extend_from_slice(
             write_object_start(
                 IF cached # << >> THEN s ELSE write_definition(s, def).s, def),
             self.buf)))

\* The derived Serialize of a struct: serialize_struct, serialize_field for
\* each field with `?`, then end.
serialize_fields(s, self, fs, i) ==
    IF self.st # "ok" THEN [s EXCEPT !.st = self.st]
    ELSE IF i > Len(fs) THEN end(s, self)
    ELSE serialize_fields(s, serialize_field(s, self, fs[i][1], fs[i][2]), fs, i + 1)

\* SerializeSeq::serialize_element for each element of a Vec.
serialize_elements(s, xs, i) ==
    IF i > Len(xs) THEN s
    ELSE serialize_elements(serialize(s, xs[i][2]), xs, i + 1)

\* value.serialize(&mut ser): serialize_i32; serialize_seq(Some(len)), the
\* elements and SerializeSeq::end; serialize_struct and the fields.
serialize(s, value) ==
    IF s.st # "ok" THEN s
    ELSE CASE value.k = "Int" -> serialize_int(s, value.a)
           [] value.k = "Seq" ->
                 serialize_elements(write_list_begin(s, Len(value.fs), << >>), value.fs, 1)
           [] value.k = "Struct" ->
                 serialize_fields(s, StructSerializer(value.name), value.fs, 1)

\* to_vec: the Serializer once value is serialized.
to_vec(checks, value) == serialize(NewSerializer(checks), value)

---------------------------------------------------------------------------
(* The serde Deserializer (src/serde-hessian/src/de.rs)                    *)

\* HessianDecoder::read_definition_id(o): the definition an object tag refers
\* to, by the Int that follows 'O' or by the tag itself, o - 0x60.
read_definition_id(d, o) ==
    With(IF o.sub = "Compact" THEN Ok(d, VInt(o.c - \h60)) ELSE read_value(d), LAMBDA i :
    IF ~i.ok THEN i
    ELSE IF i.val.k # "Int" THEN UnexpectedType(i.d, i.val)
    ELSE IF ~(i.val.a >= 0 /\ i.val.a < Len(i.d.class_references))
    THEN Err(i.d, "OutOfDefinitionRange")
    ELSE Ok(i.d, i.d.class_references[i.val.a + 1]))

\* deserialize_i32 and visit_i32; `v as i32` keeps the low word of a Long and
\* the whole part of a Double (one given by its bits is not among the values
\* these streams hold).
deserialize_i32(d) ==
    Try(read_value(d), LAMBDA r :
    CASE r.val.k = "Int" -> Ok(r.d, SInt(r.val.a))
      [] r.val.k = "Long" -> Ok(r.d, SInt(r.val.a))
      [] r.val.k = "Double" /\ r.val.h = 0 -> Ok(r.d, SInt(r.val.a))
      [] r.val.k = "Double" /\ r.val.h = 1 ->
            Ok(r.d, SInt(IF r.val.a >= 0 THEN r.val.a \div 1000 ELSE -((-r.val.a) \div 1000)))
      [] OTHER -> UnexpectedType(r.d, r.val))

RECURSIVE deserialize(_, _)
RECURSIVE visit_seq_struct(_, _, _, _, _)
RECURSIVE visit_seq_vec(_, _, _, _, _)
RECURSIVE deserialize_struct(_, _)

\* The derived visit_seq of a struct over SeqAccess::new(self, None, Some(len)):
\* next_element for each field in order, invalid_length when it gives None;
\* fs is what was read, inx the position of the SeqAccess.
visit_seq_struct(d, like, len, inx, fs) ==
    IF inx >= Len(like.fs) THEN Ok(d, SStruct(like.name, fs))
    ELSE IF len = inx THEN Err(d, "invalid length")
    ELSE Try(deserialize(d, like.fs[inx + 1][2]), LAMBDA value :
         visit_seq_struct(value.d, like, len, inx + 1,
                          Append(fs, << like.fs[inx + 1][1], value.val >>)))

\* The visit_seq of Vec<T>: next_element until it gives None.  len is
\* Some(len) as << len >>, a negative len being a usize past every position,
\* or None as << >>, where 'Z' ends the elements and is read.
visit_seq_vec(d, like, len, inx, xs) ==
    IF len # << >>
    THEN IF len[1] = inx THEN Ok(d, SSeq(xs))
         ELSE Try(deserialize(d, like), LAMBDA value :
              visit_seq_vec(value.d, like, len, inx + 1, Append(xs, value.val)))
    ELSE Try(peek_byte(d), LAMBDA tag :
         IF tag.val = 90 THEN Try(read_byte(d), LAMBDA z : Ok(z.d, SSeq(xs)))
         ELSE Try(deserialize(d, like), LAMBDA value :
              visit_seq_vec(value.d, like, len, inx + 1, Append(xs, value.val))))

\* deserialize_struct for the struct type of like.  The Map arm (visit_map)
\* is for streams that hold the struct as a map, which to_vec does not write.
deserialize_struct(d, like) ==
    Try(read_byte(d), LAMBDA tag :
    With(ByteCodecType_from(tag.val), LAMBDA t :
    CASE t.k = "Definition" ->
             Try(read_definition(tag.d), LAMBDA def : deserialize_struct(def.d, like))
      [] t.k = "Object" ->
             Try(read_definition_id(tag.d, t), LAMBDA def :
             visit_seq_struct(def.d, like, Len(def.val.fields), 0, << >>))
      [] t.k = "Map" -> Err(tag.d, "visit_map")
      [] OTHER -> Err(tag.d, "UnexpectedType")))

\* deserialize_seq for Vec<T>, T being the type of like.
deserialize_seq(d, like) ==
    Try(read_byte(d), LAMBDA tag :
    With(ByteCodecType_from(tag.val), LAMBDA t :
    IF t.k # "List" THEN Err(tag.d, "UnexpectedType")
    ELSE Try(read_type_of(tag.d, t.typed), LAMBDA typ :
         IF t.sub = "FixedLength"
         THEN Try(read_list_length(typ.d), LAMBDA length :
              visit_seq_vec(length.d, like, << length.val >>, 0, << >>))
         ELSE IF t.sub = "ShortFixedLength"
         THEN visit_seq_vec(typ.d, like, << t.length >>, 0, << >>)
         ELSE visit_seq_vec(typ.d, like, << >>, 0, << >>))))

\* T::deserialize(&mut de), T being the type of the value like: i32,
\* Vec<T> with T the type of its first element, or a struct.
deserialize(d, like) ==
    CASE like.k = "Int" -> deserialize_i32(d)
      [] like.k = "Seq" ->
            deserialize_seq(d, IF like.fs = << >> THEN SInt(0) ELSE like.fs[1][2])
      [] like.k = "Struct" -> deserialize_struct(d, like)

---------------------------------------------------------------------------
(* The accessors, the order and the equality of Value (src/src/value.rs)   *)

\* Option: << >> is None, << x >> is Some(x).
as_null(v) == IF v.k = "Null" THEN << VNull >> ELSE << >>
as_bool(v) == IF v.k = "Bool" THEN << v.a = 1 >> ELSE << >>
as_int(v) == IF v.k = "Int" THEN << v.a >> ELSE << >>
as_long(v) == IF v.k = "Long" THEN << LongOf(v) >> ELSE << >>
as_double(v) == IF v.k = "Double" THEN << v >> ELSE << >>
as_date(v) == IF v.k = "Date" THEN << LongOf(v) >> ELSE << >>
as_bytes(v) == IF v.k = "Bytes" THEN << v.b >> ELSE << >>
as_str(v) == IF v.k = "String" THEN << v.b >> ELSE << >>
as_ref(v) == IF v.k = "Ref" THEN << RefOf(v) >> ELSE << >>
as_list(v) == IF v.k = "List" THEN << v >> ELSE << >>
as_map(v) == IF v.k = "Map" THEN << v >> ELSE << >>

is_null(v) == as_null(v) # << >>
is_bool(v) == as_bool(v) # << >>
is_int(v) == as_int(v) # << >>
is_long(v) == as_long(v) # << >>
is_double(v) == as_double(v) # << >>
is_date(v) == as_date(v) # << >>
is_bytes(v) == as_bytes(v) # << >>
is_str(v) == as_str(v) # << >>
is_ref(v) == as_ref(v) # << >>
\* is_list asks as_int.
is_list(v) == as_int(v) # << >>
is_map(v) == as_map(v) # << >>

\* Ordering, and Ord::cmp of two integers.
IntCmp(x, y) == IF x < y THEN "Less" ELSE IF x = y THEN "Equal" ELSE "Greater"

\* i64::cmp: the high words, then the low words as unsigned.
I64Cmp(x, y) ==
    IF x.hi # y.hi THEN IntCmp(x.hi, y.hi)
    ELSE IF (x.lo < 0) = (y.lo < 0) THEN IntCmp(x.lo, y.lo)
    ELSE IF x.lo < 0 THEN "Greater" ELSE "Less"

\* u32::cmp.
U32Cmp(x, y) == IF x.hi # y.hi THEN IntCmp(x.hi, y.hi) ELSE IntCmp(x.lo, y.lo)

\* Whether the Double is a NaN: the exponent bits all set and the mantissa not 0.
IsNaN(v) ==
    /\ v.h = 2
    /\ v.b[1] % 128 = 127 /\ v.b[2] >= 240
    /\ (v.b[2] % 16 # 0 \/ \E i \in 3..8 : v.b[i] # 0)

\* An f64 that is a whole number or a NaN: nan, or the number n as an i64.
F64(nan, n) == [nan |-> nan, n |-> n]

\* The f64 of a Double that holds a whole number or is a NaN.
F64OfDouble(v) == IF IsNaN(v) THEN F64(TRUE, I64(0, 0)) ELSE F64(FALSE, I64FromI32(v.a))

\* The i64 of a Bool (`b as i64`), an Int (`i as i64`), a Long or a Date.
AsI64(v) == IF v.k \in {"Bool", "Int"} THEN I64FromI32(v.a) ELSE LongOf(v)

\* `l as f64`.  The conversion is exact below 2^53 and rounds, monotonically,
\* above; against the doubles held here (whole numbers of the i32 range, NaN)
\* the rounded and the exact number compare alike, so the number is kept.
F64OfI64(l) == F64(FALSE, l)

\* float_ord: partial_cmp, and Less when it is None.
float_ord(f, g) == IF f.nan \/ g.nan THEN "Less" ELSE I64Cmp(f.n, g.n)

\* Ord::cmp of two byte vectors or two Strings: lexicographic.
RECURSIVE SeqCmp(_, _)
SeqCmp(x, y) ==
    IF x = << >> \/ y = << >> THEN IntCmp(Len(x), Len(y))
    ELSE IF x[1] # y[1] THEN IntCmp(x[1], y[1])
    ELSE SeqCmp(Tail(x), Tail(y))

RECURSIVE cmp(_, _), VecCmp(_, _), EntriesCmp(_, _), sort_by(_)

\* Ord for List, derived: Typed before Untyped, then the name, then the values.
ListCmp(l, l2) ==
    IF l.t # << >> /\ l2.t = << >> THEN "Less"
    ELSE IF l.t = << >> /\ l2.t # << >> THEN "Greater"
    ELSE IF l.t # << >> /\ SeqCmp(l.t[1], l2.t[1]) # "Equal" THEN SeqCmp(l.t[1], l2.t[1])
    ELSE VecCmp(l.xs, l2.xs)

\* Ord::cmp of Value.  The entries xs of a Map are those of m.iter(), in the
\* order this HashMap yields them.
cmp(self, other) ==
    CASE self.k = "Null" -> IF other.k = "Null" THEN "Equal" ELSE "Less"
      [] self.k = "Bool" ->
            (CASE other.k = "Null" -> "Greater"
               [] other.k \in {"Int", "Long", "Date"} -> I64Cmp(AsI64(self), AsI64(other))
               [] other.k = "Double" -> float_ord(F64OfI64(AsI64(self)), F64OfDouble(other))
               [] OTHER -> "Less")
      [] self.k \in {"Int", "Long", "Date"} ->
            (CASE other.k = "Null" -> "Greater"
               [] other.k \in {"Bool", "Int", "Long", "Date"} ->
                     I64Cmp(AsI64(self), AsI64(other))
               [] other.k = "Double" -> float_ord(F64OfI64(AsI64(self)), F64OfDouble(other))
               [] OTHER -> "Less")
      [] self.k = "Double" ->
            (CASE other.k = "Null" -> "Greater"
               [] other.k \in {"Bool", "Int", "Long", "Date"} ->
                     float_ord(F64OfDouble(self), F64OfI64(AsI64(other)))
               [] other.k = "Double" -> float_ord(F64OfDouble(self), F64OfDouble(other))
               [] OTHER -> "Less")
      [] self.k = "Bytes" ->
            (CASE other.k \in {"String", "List", "Ref", "Map"} -> "Less"
               [] other.k = "Bytes" -> SeqCmp(self.b, other.b)
               [] OTHER -> "Greater")
      [] self.k = "String" ->
            (CASE other.k \in {"Ref", "List", "Map"} -> "Less"
               [] other.k = "String" -> SeqCmp(self.b, other.b)
               [] OTHER -> "Greater")
      [] self.k = "Ref" ->
            (CASE other.k \in {"List", "Map"} -> "Less"
               [] other.k = "Ref" -> U32Cmp(RefOf(self), RefOf(other))
               [] OTHER -> "Greater")
      [] self.k = "List" ->
            (CASE other.k = "Map" -> "Less"
               [] other.k = "List" -> ListCmp(self, other)
               [] OTHER -> "Greater")
      [] self.k = "Map" ->
            (CASE other.k = "Map" -> EntriesCmp(sort_by(self.xs), sort_by(other.xs))
               [] OTHER -> "Greater")

\* Ord::cmp of two Vec<Value>: the first pair that is not Equal, then the lengths.
VecCmp(x, y) ==
    IF x = << >> \/ y = << >> THEN IntCmp(Len(x), Len(y))
    ELSE IF cmp(x[1], y[1]) # "Equal" THEN cmp(x[1], y[1])
    ELSE VecCmp(Tail(x), Tail(y))

\* Ord::cmp of two Vec<(&Value, &Value)>: each pair by its key, then its value.
EntriesCmp(x, y) ==
    IF x = << >> \/ y = << >> THEN IntCmp(Len(x), Len(y))
    ELSE IF cmp(x[1][1], y[1][1]) # "Equal" THEN cmp(x[1][1], y[1][1])
    ELSE IF cmp(x[1][2], y[1][2]) # "Equal" THEN cmp(x[1][2], y[1][2])
    ELSE EntriesCmp(Tail(x), Tail(y))

\* The sorted prefix v with the entry e put in from the right: e passes every
\* entry whose key it is Less than.
RECURSIVE insert_tail(_, _)
insert_tail(v, e) ==
    IF v # << >> /\ cmp(e[1], v[Len(v)][1]) = "Less"
    THEN insert_tail(SubSeq(v, 1, Len(v) - 1), e) \o << v[Len(v)] >>
    ELSE v \o << e >>

\* sort_by(|l, r| l.0.cmp(r.0)) of a short vector: the insertion sort.
sort_by(v) ==
    IF v = << >> THEN << >> ELSE insert_tail(sort_by(SubSeq(v, 1, Len(v) - 1)), v[Len(v)])

\* f64 ==: a NaN equals nothing.
DoubleEq(x, y) == ~IsNaN(x) /\ ~IsNaN(y) /\ x = y

\* PartialEq::eq of Value.  As in cmp, the entries xs of a Map are in the order
\* its HashMap yields them; the type name of a Map is not looked at.
RECURSIVE eq(_, _), VecEq(_, _), EntriesEq(_, _)
eq(self, other) ==
    CASE self.k # other.k -> FALSE
      [] self.k = "Double" -> DoubleEq(self, other)
      [] self.k = "List" -> self.t = other.t /\ VecEq(self.xs, other.xs)
      [] self.k = "Map" -> EntriesEq(sort_by(self.xs), sort_by(other.xs))
      [] OTHER -> self = other

VecEq(x, y) ==
    /\ Len(x) = Len(y)
    /\ \A i \in 1..Len(x) : eq(x[i], y[i])

EntriesEq(x, y) ==
    /\ Len(x) = Len(y)
    /\ \A i \in 1..Len(x) : eq(x[i][1], y[i][1]) /\ eq(x[i][2], y[i][2])

---------------------------------------------------------------------------
(* Sessions: what is encoded and decoded                                   *)

\* Bounds of the sessions explored.
MaxOps == 2          \* serialize_value calls of a session
MaxCalls == 3        \* write_type or write_definition calls of a session
MaxListLen == 8      \* length of the sampled flat lists
MaxObjVals == 3      \* values that follow an object tag in a crafted stream

\* Strings, as UTF-8 bytes.
StrA == << 97 >>
StrB == << 98 >>
StrK == << 107 >>
StrInt == << 91, 105, 110, 116 >>
StrCar == << 67, 97, 114 >>
StrE == << 69 >>
StrP == << 80 >>
StrEacute == << 195, 169 >>

IntSamples ==
    {0, 1, -16, 47, 48, -17, -2048, 2047, 2048, -2049, -262144, 262143, 262144,
     -262145, I32_MIN, I32_MAX}

LongSamples ==
    {I64FromI32(n) : n \in {0, -8, 15, 16, -9, -2048, 2047, 2048, -2049, -262144,
                            262143, 262144, -262145, I32_MIN, I32_MAX}}
    \cup {I64(0, I32_MIN), I64(-1, I32_MAX), I64(I32_MAX, -1), I64(I32_MIN, 0), I64(1, 0)}

DateSamples ==
    {I64(0, 0), I64FromI32(-1), I64FromI32(60000), I64(372, 1234567), I64(I32_MIN, 0)}

RefSamples ==
    {U32(0, 0), U32(0, 1), U32(0, 47), U32(0, 48), U32(32767, 65535), U32(32768, 0),
     U32(65535, 65535)}

\* Whole doubles of the i32 range.
DoubleSamples ==
    {0, 1, -1, 127, 128, -128, -129, 32767, -32768, 32768, -32769, -40000, I32_MAX}

\* A flat list of n leaves, Int and short String alternating.
FlatItems(n) == [i \in 1..n |-> IF i % 2 = 1 THEN VInt(i * 40 - 60) ELSE VString(<< 96 + i >>)]

ListSamples == {VList(t, FlatItems(n)) : t \in {<< >>, << StrA >>}, n \in 0..MaxListLen}

NestedSamples ==
    {VList(<< StrA >>, << VList(<< StrA >>, << VInt(1) >>), VList(<< StrInt >>, << >>),
                          VMap(<< StrA >>, << << VString(StrK), VInt(300) >> >>) >>),
     VList(<< >>, << VMap(<< >>, << >>), VList(<< >>, FlatItems(8)) >>),
     VMap(<< >>, << >>),
     VMap(<< StrInt >>, << >>),
     VMap(<< >>, << << VInt(1), VString(StrA) >>,
                    << VString(StrK), VList(<< >>, << VInt(-17) >>) >> >>),
     VMap(<< >>, << << VString(StrK), VList(<< >>, << VInt(-17) >>) >>,
                    << VInt(1), VString(StrA) >> >>),
     VMap(<< StrA >>, << << VString(StrK), VMap(<< StrA >>, << >>) >>,
                         << VString(StrEacute), VList(<< StrA >>, << VString(<< >>) >>) >> >>)}

ScalarKinds == {"Null", "Bool", "Int", "Long", "Date", "Ref"}

Values ==
    {VNull, VBool(TRUE), VBool(FALSE)}
    \cup {VInt(n) : n \in IntSamples}
    \cup {VLong(l) : l \in LongSamples}
    \cup {VDate(l) : l \in DateSamples}
    \cup {VRef(u) : u \in RefSamples}
    \cup {VDouble(n) : n \in DoubleSamples}
    \cup {VString(<< >>), VString(StrA), VString(StrEacute)}
    \cup ListSamples \cup NestedSamples

\* The sessions explored serialize values of one family.
Family(v) ==
    CASE v.k \in {"Null", "Bool"} -> "bool"
      [] v.k = "Int" -> "int"
      [] v.k = "Long" -> "long"
      [] v.k \in {"Date", "Ref"} -> "date"
      [] v.k = "Double" -> "double"
      [] v.k = "String" -> "string"
      [] OTHER -> IF type(v) # << >> THEN "typed" ELSE "untyped"

TypeNames == {StrA, StrB, StrInt}

Definitions ==
    {Definition(StrCar, << StrA, StrB >>), Definition(StrCar, << StrK >>),
     Definition(StrE, << >>), Definition(StrP, << StrA, StrB, StrK >>)}

NoDefinition == Definition(<< >>, << >>)

\* A call on the serializer: its argument, the writer's length before and after
\* it, the caches before it and what it returned.  For a crafted stream: its
\* definitions (classes), definition index (ret) and values (v), and the offsets
\* at which the values end (ends).
Call(op, v, tp, def, pre, post, ret) ==
    [op |-> op, v |-> v, tp |-> tp, def |-> def,
     from |-> Len(pre.writer), to |-> Len(post.writer),
     types |-> pre.type_cache, classes |-> pre.classes_cache, ret |-> ret,
     ends |-> << >>]

\* Crafted streams in the manner of test_read_object: class definitions, an
\* object tag with a definition index, and the values that follow it.
ObjVals == {VInt(1), VString(StrA), VNull, VList(<< >>, << VInt(7) >>)}

ObjDefs ==
    {<< Definition(StrCar, << StrA, StrB >>) >>,
     << Definition(StrE, << >>), Definition(StrCar, << StrA, StrB >>) >>,
     << Definition(StrP, << StrA, StrB, StrK >>) >>}

RECURSIVE write_definitions(_, _, _)
write_definitions(s, defs, k) ==
    IF k > Len(defs) THEN s
    ELSE write_definitions(write_definition(s, defs[k]).s, defs, k + 1)

\* ends[j + 1]: the offset of the end of the j-th value after the object tag
\* (ends[1]: the offset at which the first value starts).
ObjectStream(defs, i, vals) ==
    With(serialize_int(Write(write_definitions(NewSerializer(FALSE), defs, 1), << 79 >>), i),
         LAMBDA s0 :
         [defs |-> defs, i |-> i, vals |-> vals,
          bytes |-> serialize_items(s0, vals, 1).writer,
          ends |-> [j \in 1..(Len(vals) + 1) |->
                       Len(serialize_items(s0, SubSeq(vals, 1, j - 1), 1).writer)]])

ObjectStreams ==
    {ObjectStream(defs, i, vals) :
        defs \in ObjDefs, i \in 0..2,
        vals \in UNION {[1..n -> ObjVals] : n \in 0..MaxObjVals}}

\* What a call on the deserializer returned, and the cursor as it left it.
Output(r) == [op |-> "read_value", ok |-> r.ok, err |-> r.err, val |-> r.val,
              pos |-> r.d.pos]

Init ==
    /\ ser \in {NewSerializer(TRUE), NewSerializer(FALSE)}
    /\ de = NewDeserializer(<< >>)
    /\ phase = "encode"
    /\ inputs = << >>
    /\ outputs = << >>

OpsOf(op) == {k \in 1..Len(inputs) : inputs[k].op = op}

SerializeValue(v) ==
    /\ phase = "encode" /\ ser.st = "ok"
    /\ Len(inputs) < MaxOps
    /\ \A k \in 1..Len(inputs) :
           inputs[k].op = "serialize_value" /\ Family(inputs[k].v) = Family(v)
    /\ ser' = serialize_value(ser, v)
    /\ inputs' = Append(inputs, Call("serialize_value", v, << >>, NoDefinition, ser, ser', 0))
    /\ UNCHANGED <<de, phase, outputs>>

WriteType(tp) ==
    /\ phase = "encode" /\ ser.st = "ok"
    /\ Len(inputs) < MaxCalls
    /\ \A k \in 1..Len(inputs) : inputs[k].op = "write_type"
    /\ ser' = write_type(ser, tp)
    /\ inputs' = Append(inputs, Call("write_type", VNull, tp, NoDefinition, ser, ser', 0))
    /\ UNCHANGED <<de, phase, outputs>>

WriteDefinition(def) ==
    /\ phase = "encode" /\ ser.st = "ok"
    /\ Len(inputs) < MaxCalls
    /\ \A k \in 1..Len(inputs) : inputs[k].op = "write_definition"
    /\ LET r == write_definition(ser, def)
       IN  /\ ser' = r.s
           /\ inputs' = Append(inputs,
                  Call("write_definition", VNull, << >>, def, ser, r.s, r.ret))
    /\ UNCHANGED <<de, phase, outputs>>

\* Deserializer::new over what the session wrote.
FromWriter ==
    /\ phase = "encode" /\ ser.st = "ok"
    /\ inputs # << >>
    /\ de' = NewDeserializer(ser.writer)
    /\ phase' = "decode"
    /\ UNCHANGED <<ser, inputs, outputs>>

\* Deserializer::new over a crafted stream.
FromSlice(f) ==
    /\ phase = "encode"
    /\ inputs = << >>
    /\ de' = NewDeserializer(f.bytes)
    /\ phase' = "decode"
    /\ inputs' = << [op |-> "from_slice", v |-> VList(<< >>, f.vals), tp |-> << >>,
                     def |-> NoDefinition, from |-> 0, to |-> Len(f.bytes),
                     types |-> << >>, classes |-> f.defs, ret |-> f.i,
                     ends |-> f.ends] >>
    /\ UNCHANGED <<ser, outputs>>

\* read_value, while the stream has bytes left and no call has failed.
ReadValue ==
    /\ phase = "decode"
    /\ de.pos < Len(de.buffer)
    /\ \A k \in 1..Len(outputs) : outputs[k].ok
    /\ \E r \in Outcomes(read_value(de)) :
           /\ de' = r.d
           /\ outputs' = Append(outputs, Output(r))
    /\ UNCHANGED <<ser, phase, inputs>>

Next ==
    \/ \E v \in Values : SerializeValue(v)
    \/ \E tp \in TypeNames : WriteType(tp)
    \/ \E def \in Definitions : WriteDefinition(def)
    \/ FromWriter
    \/ \E f \in ObjectStreams : FromSlice(f)
    \/ ReadValue

Spec == Init /\ [][Next]_vars


---------------------------------------------------------------------------
(* Sessions that serialize one string                                      *)

MaxStrLen == 3       \* code points of the sampled short strings

\* Characters of 1, 2, 3 and 4 UTF-8 bytes.
Alphabet == {<< 97 >>, << 195, 169 >>, << 226, 130, 172 >>, << 240, 159, 152, 128 >>}

\* n times the character ch.
Rep(ch, n) == [i \in 1..(n * Len(ch)) |-> ch[((i - 1) % Len(ch)) + 1]]

RECURSIVE Concat(_)
Concat(chars) == IF chars = << >> THEN << >> ELSE Head(chars) \o Concat(Tail(chars))

ShortStrings == {Concat(t) : t \in UNION {[1..n -> Alphabet] : n \in 0..MaxStrLen}}

\* Strings at the edges of the header forms and of the chunk limit.
BoundaryStrings ==
    {Rep(<< 97 >>, 31), Rep(<< 97 >>, 32), Rep(<< 195, 169 >>, 32),
     Rep(<< 97 >>, 1023), Rep(<< 97 >>, 1024), Rep(<< 226, 130, 172 >>, 1024),
     Rep(<< 97 >>, MAX_CHUNK_BYTE_SIZE - 1),
     Rep(<< 97 >>, MAX_CHUNK_BYTE_SIZE),
     Rep(<< 97 >>, MAX_CHUNK_BYTE_SIZE + 1),
     Rep(<< 195, 169 >>, MAX_CHUNK_BYTE_SIZE),
     Rep(<< 97 >>, MAX_CHUNK_BYTE_SIZE) \o Rep(<< 240, 159, 152, 128 >>, 16384)}

StringSamples == ShortStrings \cup BoundaryStrings

SerializeString ==
    /\ phase = "encode" /\ ser.st = "ok"
    /\ inputs = << >>
    /\ \E v \in StringSamples :
           /\ ser' = serialize_string(ser, v)
           /\ inputs' = << Call("serialize_string", VString(v), << >>, NoDefinition,
                                ser, ser', 0) >>
    /\ UNCHANGED <<de, phase, outputs>>

NextString ==
    \/ SerializeString
    \/ FromWriter
    \/ ReadValue

SpecString == Init /\ [][NextString]_vars

---------------------------------------------------------------------------
(* Sessions that serialize one binary                                      *)

MaxBinLen == 20      \* length of the sampled short binaries

\* n bytes: step is what one byte adds to the one before it.
Bin(n, step) == [i \in 1..n |-> (i * step) % 256]

BinarySamples ==
    {Bin(n, step) : n \in 0..MaxBinLen, step \in {1, 37}}
    \cup {Bin(BINARY_CHUNK_SIZE, 1), Bin(BINARY_CHUNK_SIZE + 1, 1),
          Bin(2 * BINARY_CHUNK_SIZE + 2, 1)}

SerializeBinary ==
    /\ phase = "encode" /\ ser.st = "ok"
    /\ inputs = << >>
    /\ \E v \in BinarySamples :
           /\ ser' = serialize_binary(ser, v)
           /\ inputs' = << Call("serialize_binary", VBytes(v), << >>, NoDefinition,
                                ser, ser', 0) >>
    /\ UNCHANGED <<de, phase, outputs>>

NextBinary ==
    \/ SerializeBinary
    \/ FromWriter
    \/ ReadValue

SpecBinary == Init /\ [][NextBinary]_vars


---------------------------------------------------------------------------
(* Sessions that decode a crafted stream                                   *)

MaxTokens == 3       \* fragments after the class definitions of a crafted stream

\* Fragments of a stream: an object tag, a compact object tag, the Ints 0, 2
\* and -1, the String "a", Null, a typed list tag and a class definition tag.
Tokens ==
    {<< 79 >>, << \h60 >>, << \h90 >>, << \h92 >>, << \h8f >>, << 1, 97 >>, << 78 >>,
     << \h71 >>, << 67 >>}

TokenBodies == {Concat(t) : t \in UNION {[1..n -> Tokens] : n \in 0..MaxTokens}}

\* String payloads: UTF-8, and bytes that are not UTF-8.
Utf8Payloads ==
    {<< 97 >>, << \hc3, \ha9 >>, << \he2, \h82, \hac >>, << \hf0, \h9f, \h98, \h80 >>}
BadPayloads ==
    {<< \h80 >>, << \hbf >>, << \hc0 >>, << \hc1 >>, << \hf5 >>, << \hff >>,
     << \hc2, \h41 >>, << \he0, \h80, \h81 >>, << \hed, \ha0, \h80 >>,
     << \hf4, \h90, \h80, \h80 >>}

\* One-character strings over these payloads, in the compact and the 'S' form,
\* alone, followed by a value, and where a list length or a reference is read.
StringStreams ==
    {ctx \o head \o p \o tail :
        ctx \in {<< >>, << \h58 >>, << \h51 >>, << \h79 >>},
        head \in {<< 1 >>, << 83, 0, 1 >>},
        p \in Utf8Payloads \cup BadPayloads,
        tail \in {<< >>, << 78 >>}}

\* A non-final string or binary chunk, the byte after it, and what follows.
ChunkStreams ==
    {chunk \o << t >> \o tail :
        chunk \in {<< \h52, 0, 1, 97 >>, << \h41, 0, 1, 7 >>},
        t \in {78, \h90, 90, \h40, 1, 83, 66, \h21, \h52, \h41, \h34, 67},
        tail \in {<< >>, << 97 >>, << 0, 1, 97 >>}}

\* The class definitions a crafted stream starts with.
DefPrefixes == {<< >>} \cup ObjDefs

\* A crafted stream: its bytes, the definitions it starts with, written as
\* prefix, and the offset at which they end.
Stream(defs, prefix, body) ==
    [op |-> "from_bytes", v |-> VBytes(prefix \o body), tp |-> << >>,
     def |-> NoDefinition, from |-> 0, to |-> Len(prefix \o body),
     types |-> << >>, classes |-> defs, ret |-> Len(prefix), ends |-> << >>]

ByteStreams ==
    UNION {With(write_definitions(NewSerializer(FALSE), defs, 1).writer, LAMBDA prefix :
               {Stream(defs, prefix, body) : body \in TokenBodies}) :
           defs \in DefPrefixes}
    \cup {Stream(<< >>, << >>, body) : body \in StringStreams \cup ChunkStreams}

\* Deserializer::new over a crafted stream.
FromBytes ==
    /\ phase = "encode"
    /\ inputs = << >>
    /\ \E f \in ByteStreams :
           /\ de' = NewDeserializer(f.v.b)
           /\ inputs' = << f >>
    /\ phase' = "decode"
    /\ UNCHANGED <<ser, outputs>>

\* peek_byte, once before a read_value.
PeekByte ==
    /\ phase = "decode"
    /\ \A k \in 1..Len(outputs) : outputs[k].ok /\ outputs[k].op = "read_value"
    /\ LET r == peek_byte(de)
       IN  /\ de' = r.d
           /\ outputs' = Append(outputs,
                  [Output(IF r.ok THEN [r EXCEPT !.val = VInt(r.val)] ELSE r)
                       EXCEPT !.op = "peek_byte"])
    /\ UNCHANGED <<ser, phase, inputs>>

NextDecode ==
    \/ FromBytes
    \/ ReadValue
    \/ PeekByte

SpecDecode == Init /\ [][NextDecode]_vars

---------------------------------------------------------------------------
(* Sessions that decode a stream led by each octet                         *)

MaxTail == 1         \* values after the lead byte of a stream led by each octet

\* What follows the lead byte: Strings "" and "a" and Null.
TailTokens == {<< 0 >>, << 1, 97 >>, << 78 >>}
Tails == {Concat(t) : t \in UNION {[1..n -> TailTokens] : n \in 0..MaxTail}}

\* Payload bytes at the edges of the signed and unsigned ranges.
EdgeBytes == {0, 1, \h7f, \h80, \hfe, \hff}

\* The lead bytes of the two-octet and three-octet compact Int and Long forms.
TwoOctetLeads == (\hc0..\hcf) \cup (\hf0..\hff)
ThreeOctetLeads == (\hd0..\hd7) \cup (\h38..\h3f)

\* The streams led by the octets of leads: the octet and a tail, and for the
\* leads of the compact forms the octet and its payload.
TagStreams(leads) ==
    {<< c >> \o t : c \in leads, t \in Tails}
    \cup {<< c, b >> : c \in leads \cap TwoOctetLeads, b \in 0..255}
    \cup {<< c, b1, b0 >> : c \in leads \cap ThreeOctetLeads,
                            b1 \in 0..255, b0 \in EdgeBytes}
    \cup {<< c, b1, b0 >> : c \in leads \cap ThreeOctetLeads,
                            b1 \in EdgeBytes, b0 \in 0..255}

\* Deserializer::new over a stream led by each octet.
FromTagBytes ==
    /\ phase = "encode"
    /\ inputs = << >>
    /\ \E b \in TagStreams(0..255) :
           /\ de' = NewDeserializer(b)
           /\ inputs' = << Stream(<< >>, << >>, b) >>
    /\ phase' = "decode"
    /\ UNCHANGED <<ser, outputs>>

NextTags ==
    \/ FromTagBytes
    \/ ReadValue

SpecTags == Init /\ [][NextTags]_vars

---------------------------------------------------------------------------
(* Sessions that decode a crafted binary chunk chain                       *)

MaxChunks == 2       \* non-final chunks of a crafted chain

\* The lengths of the sampled short chunks, and the long ones: on both sides
\* of the sign bit of the 16-bit length, and the largest.
ShortChunkLens == {0, 1, 3, 16}
LongChunkLens == {32767, 32768, 65535}

\* The payload of the i-th chunk of a chain.
ChunkPayload(n, i) == Bin(n, 2 * i + 1)

\* A non-final chunk: x41 b1 b0 <binary-data>.
NonFinalChunk(p) == << \h41 >> \o U16ToBe(Len(p)) \o p

\* The chunk that ends a chain: 'B' b1 b0 <binary-data>, or a compact form,
\* [x20-x2f] <binary-data> or [x34-x37] b0 <binary-data>.
FinalChunk(form, p) ==
    CASE form = "B" -> << 66 >> \o U16ToBe(Len(p)) \o p
      [] form = "Short" -> << \h20 + Len(p) >> \o p
      [] form = "TwoOctet" -> << \h34 + Len(p) \div 256, Len(p) % 256 >> \o p

FinalForms(n) ==
    {"B"} \cup (IF n < 16 THEN {"Short"} ELSE {}) \cup (IF n < 1024 THEN {"TwoOctet"} ELSE {})

\* A crafted chain: its bytes, the payloads of its chunks in order, and the
\* offset just after the last payload byte.
Chain(bytes, payload, tail) ==
    [op |-> "from_chunks", v |-> VBytes(bytes \o tail), payload |-> payload,
     end |-> Len(bytes)]

\* The chains of k non-final chunks whose lengths are lens[1..k].
RECURSIVE NonFinalChunks(_, _)
NonFinalChunks(lens, k) ==
    IF k = 0 THEN Chain(<< >>, << >>, << >>)
    ELSE With(NonFinalChunks(lens, k - 1), LAMBDA c :
         With(ChunkPayload(lens[k], k), LAMBDA p :
         Chain(c.v.b \o NonFinalChunk(p), c.payload \o p, << >>)))

\* The chains of k non-final chunks and a final chunk of n bytes, in each form
\* that can carry n bytes, at the end of the input and before another value.
ChainsOf(k, lens, n) ==
    With(NonFinalChunks(lens, k), LAMBDA c :
    With(ChunkPayload(n, k + 1), LAMBDA p :
    {Chain(c.v.b \o FinalChunk(form, p), c.payload \o p, tail) :
        form \in FinalForms(n), tail \in {<< >>, << 78 >>}}))

\* Chains of up to MaxChunks short non-final chunks; and a long chunk alone,
\* as the final chunk and as a non-final chunk before a short final one.
ChunkChains(short, long) ==
    UNION {ChainsOf(k, lens, n) :
              k \in 0..MaxChunks, lens \in [1..MaxChunks -> short], n \in short}
    \cup UNION {ChainsOf(0, << >>, n) \cup ChainsOf(1, << n >>, 1) : n \in long}

\* Deserializer::new over a crafted chain.
FromChunks ==
    /\ phase = "encode"
    /\ inputs = << >>
    /\ \E c \in ChunkChains(ShortChunkLens, LongChunkLens) :
           /\ de' = NewDeserializer(c.v.b)
           /\ inputs' = << c >>
    /\ phase' = "decode"
    /\ UNCHANGED <<ser, outputs>>

NextChunks ==
    \/ FromChunks
    \/ ReadValue

SpecChunks == Init /\ [][NextChunks]_vars

---------------------------------------------------------------------------
(* Sessions that decode a crafted variable-length list or map              *)

MaxElems == 2        \* elements of a crafted list, pairs of a crafted map

\* An encoded value and the value it decodes to.
Elem(bytes, v) == [bytes |-> bytes, v |-> v]

ElemSamples ==
    {Elem(<< \h90 >>, VInt(0)), Elem(<< \h91 >>, VInt(1)), Elem(<< 78 >>, VNull),
     Elem(<< 1, 97 >>, VString(StrA)),
     Elem(<< \h57, \h90, 90 >>, VList(<< >>, << VInt(0) >>))}

\* Key and value of the sampled pairs; the first and the last have the same key.
PairSamples ==
    {<< Elem(<< \h90 >>, VInt(0)), Elem(<< 78 >>, VNull) >>,
     << Elem(<< \h91 >>, VInt(1)), Elem(<< 1, 97 >>, VString(StrA)) >>,
     << Elem(<< 1, 97 >>, VString(StrA)), Elem(<< 72, 90 >>, VMap(<< >>, << >>)) >>,
     << Elem(<< \h90 >>, VInt(0)), Elem(<< \h91 >>, VInt(1)) >>}

\* The bytes of es[1..n] one after the other.
RECURSIVE ElemBytes(_, _)
ElemBytes(es, n) == IF n = 0 THEN << >> ELSE ElemBytes(es, n - 1) \o es[n].bytes

\* The lead bytes of the variable-length forms: 0x55 type, 0x57, 'M' type, 'H',
\* with the type written as the string "a".
ContainerHeads ==
    {[kind |-> "List", t |-> << StrA >>, bytes |-> << \h55, 1, 97 >>],
     [kind |-> "List", t |-> << >>, bytes |-> << \h57 >>],
     [kind |-> "Map", t |-> << StrA >>, bytes |-> << 77, 1, 97 >>],
     [kind |-> "Map", t |-> << >>, bytes |-> << 72 >>]}

\* A crafted container: the first len bytes of head, items, 'Z' and tail; the
\* values of the items; and the offset just after 'Z'.
Container(head, items, tail, len) ==
    With(head.bytes \o ElemBytes(items, Len(items)) \o << 90 >>, LAMBDA whole :
    [op |-> "from_container", v |-> VBytes(SubSeq(whole \o tail, 1, len)),
     kind |-> head.kind, t |-> head.t, items |-> [i \in 1..Len(items) |-> items[i].v],
     end |-> Len(whole), whole |-> len >= Len(whole)])

\* The items of a list: up to MaxElems elements; of a map: up to MaxElems pairs.
ItemsOf(kind) ==
    IF kind = "List"
    THEN UNION {[1..n -> ElemSamples] : n \in 0..MaxElems}
    ELSE {[i \in 1..2 * n |-> ps[(i + 1) \div 2][2 - (i % 2)]] :
             n \in 0..MaxElems, ps \in [1..MaxElems -> PairSamples]}

\* Each container whole, at the end of the input and before the Int 1, and
\* each cut short anywhere before its 'Z'.
Containers ==
    UNION {UNION {{Container(head, items, << >>, len) :
                      len \in 1..Len(head.bytes \o ElemBytes(items, Len(items))) + 1}
                  \cup {Container(head, items, << \h91 >>,
                                  Len(head.bytes \o ElemBytes(items, Len(items))) + 2)} :
                  items \in ItemsOf(head.kind)} :
           head \in ContainerHeads}

\* Deserializer::new over a crafted container.
FromContainer ==
    /\ phase = "encode"
    /\ inputs = << >>
    /\ \E c \in Containers :
           /\ de' = NewDeserializer(c.v.b)
           /\ inputs' = << c >>
    /\ phase' = "decode"
    /\ UNCHANGED <<ser, outputs>>

NextContainer ==
    \/ FromContainer
    \/ ReadValue

SpecContainer == Init /\ [][NextContainer]_vars

---------------------------------------------------------------------------
(* Sessions that serialize a value with serde and read it back             *)

MaxFields == 2       \* fields of a sampled struct

StrQ == << 81 >>
StrO == << 79, 117, 116 >>

\* The field names of the sampled structs, in declaration order.
KeyLists ==
    {SubSeq(<< StrA, StrB, StrK >>, i, j) : i \in 1..3, j \in 0..3}
    \cap UNION {[1..n -> {StrA, StrB, StrK}] : n \in 0..MaxFields}

\* Structs of i32 fields, as test_basic_struct has them.
FlatStructs ==
    {SStruct(name, [i \in 1..Len(keys) |-> << keys[i], SInt(150 * i - 149) >>]) :
        name \in {StrP, StrQ}, keys \in KeyLists}

\* A struct in a field of a struct; two of them; and a Vec in a field, as in
\* test_struct.
NestedStructs ==
    {SStruct(StrO, << << StrA, f >> >>) : f \in FlatStructs}
    \cup {SStruct(StrO, << << StrA, f >>, << StrB, g >> >>) : f, g \in FlatStructs}
    \cup {SStruct(StrO, << << StrA, SInt(1) >>, << StrB, SSeq(<< f, f >>) >> >>) :
             f \in FlatStructs}

\* A Vec of two structs: of one type, or, where two struct types go by one
\* name, with keys that differ.
StructSeqs ==
    {SSeq(<< f, g >>) :
        f, g \in FlatStructs \cup {SStruct(StrO, << << StrA, h >> >>) : h \in FlatStructs}}

SerdeSamples == {SInt(1), SSeq(<< SInt(1), SInt(300) >>)}
                \cup FlatStructs \cup NestedStructs \cup StructSeqs

\* to_vec(&v).
ToVec ==
    /\ phase = "encode" /\ ser.st = "ok"
    /\ inputs = << >>
    /\ \E v \in SerdeSamples :
           /\ ser' = to_vec(ser.checks, v)
           /\ inputs' = << [op |-> "to_vec", v |-> v] >>
    /\ UNCHANGED <<de, phase, outputs>>

\* from_slice::<T>(&bytes), T being the type of the value that was serialized:
\* Deserializer::from_bytes and T::deserialize.
SerdeFromSlice ==
    /\ phase = "decode"
    /\ outputs = << >>
    /\ inputs[1].op = "to_vec"
    /\ \E r \in Outcomes(deserialize(de, inputs[1].v)) :
           /\ de' = r.d
           /\ outputs' = << [op |-> "from_slice", ok |-> r.ok, err |-> r.err,
                             val |-> r.val, pos |-> r.d.pos] >>
    /\ UNCHANGED <<ser, phase, inputs>>

NextSerde ==
    \/ ToVec
    \/ FromWriter
    \/ SerdeFromSlice
    \/ ReadValue

SpecSerde == Init /\ [][NextSerde]_vars

---------------------------------------------------------------------------
(* Sessions that ask, compare and equate values                            *)

\* f64::NAN.
NaN == VDoubleBits(<< \h7f, \hf8, 0, 0, 0, 0, 0, 0 >>)

\* The entries of the sampled maps: keys that compare Equal across kinds
\* (Int 1, Long 1), Bool keys, and keys of distinct rank.
EntrySamples ==
    {<< << VInt(1), VNull >>, << VLong(I64(0, 1)), VNull >> >>,
     << << VBool(TRUE), VInt(1) >>, << VBool(FALSE), VInt(0) >> >>,
     << << VInt(3), VString(StrA) >>, << VString(StrK), VInt(2) >> >>}

Reversed(xs) == [i \in 1..Len(xs) |-> xs[Len(xs) + 1 - i]]

\* Maps.  A sampled Map is one HashMap: xs lists its entries in the order its
\* iter() yields them, which differs from one HashMap to the next.
MapSamples ==
    {VMap(t, xs) : t \in {<< >>, << StrA >>, << StrB >>},
                   xs \in EntrySamples \cup {Reversed(e) : e \in EntrySamples}}
    \cup {VMap(<< >>, << >>)}

\* The values that are compared and equated: every kind, the numeric kinds
\* with numbers that meet across kinds.
ValueSamples ==
    {VNull, VBool(TRUE), VBool(FALSE), VInt(0), VInt(1), VInt(-7),
     VLong(I64(0, 1)), VLong(I64(1, 0)), VDate(I64(0, 0)), VDate(I64FromI32(-7)),
     VDouble(1), VDouble(-8), NaN,
     VBytes(<< >>), VBytes(<< 1, 2 >>), VString(StrA), VString(StrB),
     VRef(U32(0, 1)), VRef(U32(1, 0)),
     VList(<< >>, << VInt(1) >>), VList(<< StrA >>, << >>),
     VList(<< StrA >>, << VInt(1) >>), VList(<< StrB >>, << VBool(TRUE) >>)}

\* Every predicate and every accessor, asked of one value.
Asked(v) ==
    [op |-> "is",
     is |-> [null |-> is_null(v), bool |-> is_bool(v), int |-> is_int(v),
             long |-> is_long(v), double |-> is_double(v), date |-> is_date(v),
             bytes |-> is_bytes(v), str |-> is_str(v), ref |-> is_ref(v),
             list |-> is_list(v), map |-> is_map(v)],
     as |-> [null |-> as_null(v), bool |-> as_bool(v), int |-> as_int(v),
             long |-> as_long(v), double |-> as_double(v), date |-> as_date(v),
             bytes |-> as_bytes(v), str |-> as_str(v), ref |-> as_ref(v),
             list |-> as_list(v), map |-> as_map(v)]]

\* v.is_null(), .., v.is_map() and v.as_null(), .., v.as_map().
IsVariant ==
    /\ inputs = << >>
    /\ \E v \in Values \cup ValueSamples \cup MapSamples :
           /\ inputs' = << [op |-> "is", a |-> v, b |-> v] >>
           /\ outputs' = << Asked(v) >>
    /\ UNCHANGED <<ser, de, phase>>

\* a == b.
Equals ==
    /\ inputs = << >>
    /\ \E a, b \in ValueSamples \cup MapSamples :
           /\ inputs' = << [op |-> "eq", a |-> a, b |-> b] >>
           /\ outputs' = << [op |-> "eq", res |-> eq(a, b)] >>
    /\ UNCHANGED <<ser, de, phase>>

\* The values that are compared: the maps without a type name, which cmp does
\* not look at.
CmpSamples == ValueSamples \cup {m \in MapSamples : m.t = << >>}

\* a.cmp(&b); then b.cmp(&c); then a.cmp(&c).
Compare ==
    /\ \A k \in 1..Len(inputs) : inputs[k].op = "cmp"
    /\ \E a, b \in CmpSamples :
           /\ \/ inputs = << >>
              \/ Len(inputs) = 1 /\ a = inputs[1].b
              \/ Len(inputs) = 2 /\ a = inputs[1].a /\ b = inputs[2].b
           /\ inputs' = Append(inputs, [op |-> "cmp", a |-> a, b |-> b])
           /\ outputs' = Append(outputs, [op |-> "cmp", res |-> cmp(a, b)])
    /\ UNCHANGED <<ser, de, phase>>

NextValue ==
    \/ IsVariant
    \/ Equals
    \/ Compare

SpecValue == Init /\ [][NextValue]_vars

---------------------------------------------------------------------------
(* Properties of the codec sessions                                        *)

\* The bytes the k-th call wrote.
Emitted(k) == SubSeq(ser.writer, inputs[k].from + 1, inputs[k].to)

\* Whether the first k calls were serialize_value calls on values of these kinds.
AllSerialized(k, kinds) ==
    \A j \in 1..k : inputs[j].op = "serialize_value" /\ inputs[j].v.k \in kinds

\* Equality of values: the same variant, scalar, type name and elements in
\* order; for maps, the same entries.
RECURSIVE SameValue(_, _)
SameValue(x, y) ==
    /\ x.k = y.k /\ x.a = y.a /\ x.h = y.h /\ x.b = y.b /\ x.t = y.t
    /\ Len(x.xs) = Len(y.xs)
    /\ IF x.k = "Map"
       THEN /\ \A i \in 1..Len(x.xs) : \E j \in 1..Len(y.xs) :
                   SameValue(x.xs[i][1], y.xs[j][1]) /\ SameValue(x.xs[i][2], y.xs[j][2])
            /\ \A j \in 1..Len(y.xs) : \E i \in 1..Len(x.xs) :
                   SameValue(x.xs[i][1], y.xs[j][1]) /\ SameValue(x.xs[i][2], y.xs[j][2])
       ELSE \A i \in 1..Len(x.xs) : SameValue(x.xs[i], y.xs[i])

\* C1: every Null, Bool, Int, Long, Date and Ref value that serialize_value
\* wrote is written as at least one byte, and read_value gives back an equal
\* value and stops exactly where the bytes of that value end.
C1_ScalarRoundTrip ==
    \A k \in 1..Len(inputs) :
        AllSerialized(k, ScalarKinds) =>
            /\ inputs[k].to > inputs[k].from
            /\ k <= Len(outputs) =>
                   /\ outputs[k].ok
                   /\ outputs[k].val = inputs[k].v
                   /\ outputs[k].pos = inputs[k].to

\* A Ref above i32::MAX and a Date of i64::MIN, written and read back.
C1_Witness ==
    /\ Len(inputs) = 2 /\ Len(outputs) = 2
    /\ inputs[1].op = "serialize_value"
    /\ inputs[1].v = VRef(U32(32768, 0))
    /\ inputs[2].v = VDate(I64(I32_MIN, 0))
    /\ outputs[1].val = inputs[1].v
    /\ outputs[2].val = inputs[2].v
    /\ outputs[2].pos = Len(ser.writer)

\* C2: every List or Map that serialize_value wrote (typed or untyped, nested,
\* of length 0 to 8 and more, the type name repeated or not, the leaves Int or
\* short String) is read back by read_value as a container of the same
\* variant, with the same type name and the same elements in order (lists) or
\* the same entries (maps).
C2_ContainerRoundTrip ==
    \A k \in 1..Len(inputs) :
        AllSerialized(k, {"List", "Map"}) =>
            /\ inputs[k].to > inputs[k].from
            /\ k <= Len(outputs) =>
                   /\ outputs[k].ok
                   /\ SameValue(outputs[k].val, inputs[k].v)
                   /\ outputs[k].pos = inputs[k].to

\* A typed map with two entries, then a typed list of length 8 under the same
\* type name, written and read back.
C2_Witness ==
    /\ Len(inputs) = 2 /\ Len(outputs) = 2
    /\ inputs[1].op = "serialize_value"
    /\ inputs[1].v.k = "Map" /\ type(inputs[1].v) = << StrA >> /\ Len(inputs[1].v.xs) = 2
    /\ inputs[2].v = VList(<< StrA >>, FlatItems(8))
    /\ SameValue(outputs[1].val, inputs[1].v)
    /\ outputs[2].val = inputs[2].v
    /\ type(outputs[2].val) = << StrA >>

\* The form an Int n is to take: the shortest one whose range holds n.
IntForm(n, out) ==
    IF n >= -16 /\ n <= 47
    THEN /\ out = << \h90 + n >>
         /\ ByteCodecType_from(out[1]).k = "Int" /\ ByteCodecType_from(out[1]).sub = "Direct"
    ELSE IF n >= -2048 /\ n <= 2047
    THEN /\ out = << \hc8 + Shr(n, 8), n % 256 >>
         /\ ByteCodecType_from(out[1]).k = "Int" /\ ByteCodecType_from(out[1]).sub = "Byte"
    ELSE IF n >= -262144 /\ n <= 262143
    THEN /\ out = << \hd4 + Shr(n, 16), Shr(n, 8) % 256, n % 256 >>
         /\ ByteCodecType_from(out[1]).k = "Int" /\ ByteCodecType_from(out[1]).sub = "Short"
    ELSE /\ out = << 73 >> \o I32ToBe(n)
         /\ ByteCodecType_from(out[1]).k = "Int" /\ ByteCodecType_from(out[1]).sub = "Normal"

\* The form a Long l is to take.
LongForm(l, out) ==
    IF ~I64FitsI32(l)
    THEN /\ out = << 76 >> \o I64ToBe(l)
         /\ ByteCodecType_from(out[1]).k = "Long" /\ ByteCodecType_from(out[1]).sub = "Normal"
    ELSE IF l.lo >= -8 /\ l.lo <= 15
    THEN /\ out = << \he0 + l.lo >>
         /\ ByteCodecType_from(out[1]).k = "Long" /\ ByteCodecType_from(out[1]).sub = "Direct"
    ELSE IF l.lo >= -2048 /\ l.lo <= 2047
    THEN /\ out = << \hf8 + Shr(l.lo, 8), l.lo % 256 >>
         /\ ByteCodecType_from(out[1]).k = "Long" /\ ByteCodecType_from(out[1]).sub = "Byte"
    ELSE IF l.lo >= -262144 /\ l.lo <= 262143
    THEN /\ out = << \h3c + Shr(l.lo, 16), Shr(l.lo, 8) % 256, l.lo % 256 >>
         /\ ByteCodecType_from(out[1]).k = "Long" /\ ByteCodecType_from(out[1]).sub = "Short"
    ELSE /\ out = << \h59 >> \o I32ToBe(l.lo)
         /\ ByteCodecType_from(out[1]).k = "Long" /\ ByteCodecType_from(out[1]).sub = "Int32"

\* C6: an Int or Long is written in the shortest form whose range holds it,
\* with the lead byte and the big-endian bytes of that form, and the lead byte
\* lies in the tag range of that form.
C6_ShortestForm ==
    \A k \in OpsOf("serialize_value") :
        /\ inputs[k].v.k = "Int" => IntForm(inputs[k].v.a, Emitted(k))
        /\ inputs[k].v.k = "Long" => LongForm(LongOf(inputs[k].v), Emitted(k))

\* i32::MAX + 1 written as 'L' and eight bytes, then -9 written in two bytes.
C6_Witness ==
    /\ Len(inputs) = 2
    /\ inputs[1].op = "serialize_value"
    /\ inputs[1].v = VLong(I64(0, I32_MIN))
    /\ Emitted(1) = << 76, 0, 0, 0, 0, 128, 0, 0, 0 >>
    /\ inputs[2].v = VLong(I64FromI32(-9))
    /\ Emitted(2) = << \hf7, \hf7 >>

\* C7: every whole Double of the i32 range is written as a non-empty encoding
\* that starts with a double tag, and read_value gives back the same Double.
C7_WholeDouble ==
    \A k \in 1..Len(inputs) :
        AllSerialized(k, {"Double"}) =>
            /\ Emitted(k) # << >>
            /\ Emitted(k)[1] \in {\h5b, \h5c, \h5d, \h5e, \h5f, \h44}
            /\ k <= Len(outputs) =>
                   /\ outputs[k].ok
                   /\ outputs[k].val = inputs[k].v

\* The call that first passed the type name of the k-th call.
FirstWriteType(k) ==
    CHOOSE j \in 1..k :
        /\ inputs[j].tp = inputs[k].tp
        /\ \A i \in 1..(j - 1) : inputs[i].tp # inputs[k].tp

\* The caches as the k-th call left them.
PostTypes(k) == IF k < Len(inputs) THEN inputs[k + 1].types ELSE ser.type_cache
PostClasses(k) == IF k < Len(inputs) THEN inputs[k + 1].classes ELSE ser.classes_cache

NoDuplicates(seq) == \A i, j \in 1..Len(seq) : seq[i] = seq[j] => i = j

\* C8: in a sequence of write_type calls, the first call for a name writes the
\* name as one String and appends it to type_cache; a later call for the name
\* writes one Int, the position at which the name was appended, and leaves
\* type_cache as it was; type_cache holds no name twice.
C8_WriteType ==
    \A k \in OpsOf("write_type") :
        With(from_slice(Emitted(k)), LAMBDA r :
        /\ r.ok /\ r.d.pos = Len(Emitted(k))
        /\ IF FirstWriteType(k) = k
           THEN /\ r.val = VString(inputs[k].tp)
                /\ PostTypes(k) = Append(inputs[k].types, inputs[k].tp)
           ELSE /\ r.val = VInt(Len(inputs[FirstWriteType(k)].types))
                /\ PostTypes(k) = inputs[k].types
        /\ NoDuplicates(PostTypes(k)))

\* Two names written, then the second again: one byte, the Int 1.
C8_Witness ==
    /\ Len(inputs) = 3
    /\ inputs[1].op = "write_type"
    /\ inputs[1].tp = StrA /\ inputs[2].tp = StrB /\ inputs[3].tp = StrB
    /\ Emitted(3) = << \h91 >>
    /\ ser.type_cache = << StrA, StrB >>

\* The call that first registered the definition name of the k-th call.
FirstWriteDefinition(k) ==
    CHOOSE j \in 1..k :
        /\ inputs[j].def.name = inputs[k].def.name
        /\ \A i \in 1..(j - 1) : inputs[i].def.name # inputs[k].def.name

\* C9: in a sequence of write_definition calls, a call for a name not yet
\* registered writes 'C', the name, the field count and the field names,
\* registers the definition and returns the number of definitions registered
\* before it; a call for a registered name returns the index of the first
\* registration, writes nothing and leaves the definition cache as it was.
C9_WriteDefinition ==
    \A k \in OpsOf("write_definition") :
        IF FirstWriteDefinition(k) = k
        THEN /\ inputs[k].ret = Len(inputs[k].classes)
             /\ Emitted(k) # << >>
             /\ Emitted(k)[1] = 67
             /\ With(from_slice(Emitted(k) \o << 78 >>), LAMBDA r :
                    /\ r.ok /\ r.val = VNull
                    /\ r.d.pos = Len(Emitted(k)) + 1
                    /\ r.d.class_references = << inputs[k].def >>)
             /\ PostClasses(k) = Append(inputs[k].classes, inputs[k].def)
        ELSE /\ inputs[k].ret = inputs[FirstWriteDefinition(k)].ret
             /\ inputs[k].to = inputs[k].from
             /\ PostClasses(k) = inputs[k].classes

\* Two definitions registered, then a definition under the first name again.
C9_Witness ==
    /\ Len(inputs) = 3
    /\ inputs[1].op = "write_definition"
    /\ inputs[1].def = Definition(StrCar, << StrA, StrB >>)
    /\ inputs[2].def = Definition(StrE, << >>)
    /\ inputs[3].def = Definition(StrCar, << StrK >>)
    /\ inputs[2].ret = 1 /\ inputs[3].ret = 0
    /\ inputs[3].to = inputs[2].to
    /\ Len(ser.classes_cache) = 2

\* The entries an object of definition def over the values vals is to have.
ObjectEntries(def, vals) ==
    {<< VString(def.fields[j]), vals[j] >> : j \in 1..Len(def.fields)}

\* C10: an object instance whose definition index is in range is read as the
\* values of its definition's fields, one value a field, paired with the field
\* names in definition order, and comes back as a typed Map under the
\* definition's name.
C10_ReadObject ==
    \A k \in OpsOf("from_slice") :
        With(inputs[k], LAMBDA f :
        (/\ outputs # << >>
         /\ f.ret < Len(f.classes)
         /\ Len(f.classes[f.ret + 1].fields) <= Len(f.v.xs)) =>
            With(f.classes[f.ret + 1], LAMBDA def :
            /\ outputs[1].ok
            /\ outputs[1].val.k = "Map"
            /\ outputs[1].pos = f.ends[Len(def.fields) + 1]
            /\ {outputs[1].val.xs[j] : j \in 1..Len(outputs[1].val.xs)}
                   = ObjectEntries(def, f.v.xs)
            /\ type(outputs[1].val) = << def.name >>))

---------------------------------------------------------------------------
(* Properties of the string and binary sessions                            *)

\* C3: read_value over what serialize_string wrote for s gives String(s), for
\* every s, those of 0x8000 code points and more included.
C3_StringRoundTrip ==
    \A k \in OpsOf("serialize_string") :
        /\ ser.st = "ok"
        /\ k <= Len(outputs) =>
               /\ outputs[k].ok
               /\ outputs[k].val = inputs[k].v
               /\ outputs[k].pos = inputs[k].to

\* The bytes of the character that starts with byte b (0: b starts none).
Utf8Width(b) ==
    IF b < 128 THEN 1
    ELSE IF b < 192 THEN 0
    ELSE IF b < 224 THEN 2
    ELSE IF b < 240 THEN 3
    ELSE 4

\* The number of code points of a UTF-8 byte sequence.
CodePoints(bytes) == Cardinality({i \in 1..Len(bytes) : Utf8Width(bytes[i]) # 0})

\* The offset after n characters of out from offset p on; Len(out) + 1 when
\* out does not hold n whole characters from p on.
SkipChars(out, p0, n) ==
    LET Run[k \in Nat] == [p \in Nat |->
            IF k = 0 THEN p
            ELSE IF k = 1
            THEN IF p < Len(out) /\ Utf8Width(out[p + 1]) # 0
                    /\ p + Utf8Width(out[p + 1]) <= Len(out)
                 THEN p + Utf8Width(out[p + 1])
                 ELSE Len(out) + 1
            ELSE Run[k - (k \div 2)][Run[k \div 2][p]]]
    IN  Run[n][p0]

\* The header of a string chunk at offset p of out: whether there is one,
\* whether it is the last, its character count and the offset of its payload.
ChunkHead(out, p) ==
    IF p >= Len(out) THEN [ok |-> FALSE, final |-> TRUE, count |-> 0, body |-> p]
    ELSE IF out[p + 1] <= 31
    THEN [ok |-> TRUE, final |-> TRUE, count |-> out[p + 1], body |-> p + 1]
    ELSE IF out[p + 1] >= \h30 /\ out[p + 1] <= \h33 /\ p + 2 <= Len(out)
    THEN [ok |-> TRUE, final |-> TRUE,
          count |-> (out[p + 1] - \h30) * 256 + out[p + 2], body |-> p + 2]
    ELSE IF out[p + 1] \in {82, 83} /\ p + 3 <= Len(out)
    THEN [ok |-> TRUE, final |-> out[p + 1] = 83,
          count |-> out[p + 2] * 256 + out[p + 3], body |-> p + 3]
    ELSE [ok |-> FALSE, final |-> TRUE, count |-> 0, body |-> p]

\* The chunks of out from offset p on, up to a last chunk that ends out: the
\* sum of their character counts and their payloads, concatenated.
RECURSIVE StringChunks(_, _)
StringChunks(out, p) ==
    With(ChunkHead(out, p), LAMBDA h :
    IF ~h.ok THEN [ok |-> FALSE, count |-> 0, payload |-> << >>]
    ELSE With(SkipChars(out, h.body, h.count), LAMBDA e :
         IF e > Len(out) THEN [ok |-> FALSE, count |-> 0, payload |-> << >>]
         ELSE IF h.final
         THEN [ok |-> e = Len(out), count |-> h.count,
               payload |-> SubSeq(out, h.body + 1, e)]
         ELSE With(StringChunks(out, e), LAMBDA rest :
              [ok |-> rest.ok, count |-> h.count + rest.count,
               payload |-> SubSeq(out, h.body + 1, e) \o rest.payload])))

\* C4: what serialize_string wrote for s is a chain of chunks, each payload of
\* as many code points as its header states, the character counts summing to
\* the code points of s and the payloads, concatenated, being the bytes of s.
C4_StringChunks ==
    \A k \in OpsOf("serialize_string") :
        /\ ser.st = "ok"
        /\ With(StringChunks(Emitted(k), 0), LAMBDA r :
               /\ r.ok
               /\ r.count = CodePoints(inputs[k].v.b)
               /\ r.payload = inputs[k].v.b)

\* The chunks of a binary from offset p of out on, up to a 'B' chunk that
\* ends out, each with the length of its own payload: their payloads, concatenated.
RECURSIVE BinaryChunks(_, _)
BinaryChunks(out, p) ==
    IF p + 3 > Len(out) \/ out[p + 1] \notin {65, 66}
    THEN [ok |-> FALSE, payload |-> << >>]
    ELSE With(p + 3 + out[p + 2] * 256 + out[p + 3], LAMBDA e :
         IF e > Len(out) THEN [ok |-> FALSE, payload |-> << >>]
         ELSE IF out[p + 1] = 66
         THEN [ok |-> e = Len(out), payload |-> SubSeq(out, p + 4, e)]
         ELSE With(BinaryChunks(out, e), LAMBDA rest :
              [ok |-> rest.ok, payload |-> SubSeq(out, p + 4, e) \o rest.payload]))

\* C5: serialize_binary writes a binary b shorter than 16 bytes as the byte
\* 0x20 + len and b, and a longer one as chunks tagged 'A' but for the last,
\* tagged 'B', each with the 16-bit length of its own payload, the payloads,
\* concatenated, being b.
C5_BinaryForm ==
    \A k \in OpsOf("serialize_binary") :
        /\ ser.st = "ok"
        /\ IF Len(inputs[k].v.b) < 16
           THEN Emitted(k) = << \h20 + Len(inputs[k].v.b) >> \o inputs[k].v.b
           ELSE With(BinaryChunks(Emitted(k), 0), LAMBDA r :
                    r.ok /\ r.payload = inputs[k].v.b)

---------------------------------------------------------------------------
(* Properties of the sessions that decode a crafted stream                 *)

\* The read_value calls of the session, in order.
Reads == SelectSeq(outputs, LAMBDA o : o.op = "read_value")

\* The deserializer after the n class definitions a stream starts with.
RECURSIVE read_definitions(_, _)
read_definitions(d, n) ==
    IF n = 0 THEN Ok(d, VNull)
    ELSE Try(read_byte(d), LAMBDA t :
         Try(read_definition(t.d), LAMBDA r : read_definitions(r.d, n - 1)))

\* The crafted stream of the session whose byte after the class definitions
\* is in tags.
LedBy(f, tags) ==
    /\ f.op = "from_bytes"
    /\ f.ret < Len(f.v.b)
    /\ f.v.b[f.ret + 1] \in tags

\* C11: at a lead byte t in 0x60..0x6f with t - 0x60 a definition of the
\* table, read_value instantiates that definition without reading an index
\* from the stream: the values after t are the fields' values, as many as the
\* definition has fields.
C11_CompactObject ==
    \A k \in OpsOf("from_bytes") :
        With(inputs[k], LAMBDA f :
        (/\ Reads # << >>
         /\ LedBy(f, \h60..\h6f)
         /\ f.v.b[f.ret + 1] - \h60 < Len(f.classes)) =>
            With(read_definitions(NewDeserializer(f.v.b), Len(f.classes)).d, LAMBDA d :
            With(read_object_fields([d EXCEPT !.pos = f.ret + 1],
                     f.classes[f.v.b[f.ret + 1] - \h60 + 1].fields, 1, << >>),
                 LAMBDA want :
            /\ Reads[1].ok = want.ok
            /\ Reads[1].pos = want.d.pos
            /\ want.ok => /\ Reads[1].val.k = "Map"
                          /\ Reads[1].val.xs = want.val)))

\* The session decodes a crafted stream that starts with a class definition.
StartsWithDefinition(f) == Reads # << >> /\ f.op = "from_bytes" /\ f.classes # << >>

\* C12 (as stated): at 'C' read_value returns what it would return on the
\* stream with the bytes of the definition removed.
C12_DefinitionRemoved ==
    \A k \in OpsOf("from_bytes") :
        With(inputs[k], LAMBDA f :
        StartsWithDefinition(f) =>
            With(Len(write_definition(NewSerializer(FALSE), f.classes[1]).s.writer),
                 LAMBDA n :
            With(read_value(NewDeserializer(SubSeq(f.v.b, n + 1, Len(f.v.b)))),
                 LAMBDA want :
            /\ Reads[1].ok = want.ok
            /\ Reads[1].err = want.err
            /\ Reads[1].val = want.val)))

\* C12 (amended): at 'C' read_value reads a String name, an Int count and that
\* many String field names, appends exactly that one Definition to the
\* definition table, and returns what read_value returns on the bytes after
\* the definition with the Definition in the table.
C12_Definition ==
    \A k \in OpsOf("from_bytes") :
        With(inputs[k], LAMBDA f :
        StartsWithDefinition(f) =>
            With(Len(write_definition(NewSerializer(FALSE), f.classes[1]).s.writer),
                 LAMBDA n :
            With(read_definition([NewDeserializer(f.v.b) EXCEPT !.pos = 1]),
                 LAMBDA r :
            /\ r.ok
            /\ r.d.pos = n
            /\ r.d.class_references = << f.classes[1] >>
            /\ Reads[1] \in {Output(o) : o \in Outcomes(read_value(r.d))})))

\* An object that refers to the definition its stream starts with is read.
C12_Witness ==
    /\ Len(inputs) = 1 /\ StartsWithDefinition(inputs[1])
    /\ LedBy(inputs[1], {79})
    /\ Reads[1].ok /\ Reads[1].val.k = "Map"
    /\ de.class_references = inputs[1].classes

\* At offset p of the stream: a typed list tag and a compact Int where its
\* type is read, with no type in the type table.
TypeRefAt(f, p) ==
    /\ p + 2 <= Len(f.v.b)
    /\ f.v.b[p + 1] = \h71
    /\ f.v.b[p + 2] \in \h80..\hbf

\* At offset p of the stream: an object tag and a compact Int that is no index
\* of the definition table.
DefRefAt(f, p) ==
    /\ p + 2 <= Len(f.v.b)
    /\ f.v.b[p + 1] = 79
    /\ f.v.b[p + 2] \in \h80..\hbf
    /\ f.v.b[p + 2] - \h90 \notin 0..(Len(f.classes) - 1)

\* The offsets at which the first read_value of a session meets a lookup: after
\* the class definitions, and one byte later when a class definition starts
\* there.
LookupOffsets(f) ==
    {f.ret} \cup (IF LedBy(f, {67}) THEN {f.ret + 1} ELSE {})

\* C13: a type reference or a definition index that is negative or not smaller
\* than the length of its table makes read_value return OutOfTypeRefRange,
\* resp. OutOfDefinitionRange, and leaves the tables as they were.
C13_OutOfRange ==
    \A k \in OpsOf("from_bytes") :
        With(inputs[k], LAMBDA f :
        Reads # << >> =>
            \A p \in LookupOffsets(f) :
                /\ TypeRefAt(f, p) =>
                       /\ ~Reads[1].ok /\ Reads[1].err = "OutOfTypeRefRange"
                       /\ de.type_references = << >>
                       /\ de.class_references = f.classes
                /\ DefRefAt(f, p) =>
                       /\ ~Reads[1].ok /\ Reads[1].err = "OutOfDefinitionRange"
                       /\ de.type_references = << >>
                       /\ de.class_references = f.classes)

---------------------------------------------------------------------------
(* Properties of the sessions that decode a stream led by each octet       *)

\* The kind, sub-encoding, typed flag and short length of the tag table, row
\* by row.
TagTable(c) ==
    CASE c = \h4e -> << "Null", "", FALSE, 0 >>
      [] c = \h54 -> << "True", "", FALSE, 0 >>
      [] c = \h46 -> << "False", "", FALSE, 0 >>
      [] c \in \h80..\hbf -> << "Int", "Direct", FALSE, 0 >>
      [] c \in \hc0..\hcf -> << "Int", "Byte", FALSE, 0 >>
      [] c \in \hd0..\hd7 -> << "Int", "Short", FALSE, 0 >>
      [] c = \h49 -> << "Int", "Normal", FALSE, 0 >>
      [] c \in \hd8..\hef -> << "Long", "Direct", FALSE, 0 >>
      [] c \in \hf0..\hff -> << "Long", "Byte", FALSE, 0 >>
      [] c \in \h38..\h3f -> << "Long", "Short", FALSE, 0 >>
      [] c = \h59 -> << "Long", "Int32", FALSE, 0 >>
      [] c = \h4c -> << "Long", "Normal", FALSE, 0 >>
      [] c = \h5b -> << "Double", "Zero", FALSE, 0 >>
      [] c = \h5c -> << "Double", "One", FALSE, 0 >>
      [] c = \h5d -> << "Double", "Byte", FALSE, 0 >>
      [] c = \h5e -> << "Double", "Short", FALSE, 0 >>
      [] c = \h5f -> << "Double", "Float", FALSE, 0 >>
      [] c = \h44 -> << "Double", "Normal", FALSE, 0 >>
      [] c = \h4a -> << "Date", "Millisecond", FALSE, 0 >>
      [] c = \h4b -> << "Date", "Minute", FALSE, 0 >>
      [] c \in \h20..\h2f -> << "Binary", "Short", FALSE, 0 >>
      [] c \in \h34..\h37 -> << "Binary", "TwoOctet", FALSE, 0 >>
      [] c = \h41 -> << "Binary", "Long", FALSE, 0 >>
      [] c = \h42 -> << "Binary", "Long", FALSE, 0 >>
      [] c \in \h00..\h1f -> << "String", "Compact", FALSE, 0 >>
      [] c \in \h30..\h33 -> << "String", "Small", FALSE, 0 >>
      [] c = \h52 -> << "String", "Chunk", FALSE, 0 >>
      [] c = \h53 -> << "String", "FinalChunk", FALSE, 0 >>
      [] c = \h55 -> << "List", "VarLength", TRUE, 0 >>
      [] c = \h56 -> << "List", "FixedLength", TRUE, 0 >>
      [] c = \h57 -> << "List", "VarLength", FALSE, 0 >>
      [] c = \h58 -> << "List", "FixedLength", FALSE, 0 >>
      [] c \in \h70..\h77 -> << "List", "ShortFixedLength", TRUE, c - \h70 >>
      [] c \in \h78..\h7f -> << "List", "ShortFixedLength", FALSE, c - \h78 >>
      [] c = \h4d -> << "Map", "", TRUE, 0 >>
      [] c = \h48 -> << "Map", "", FALSE, 0 >>
      [] c = \h43 -> << "Definition", "", FALSE, 0 >>
      [] c = \h4f -> << "Object", "Normal", FALSE, 0 >>
      [] c \in \h60..\h6f -> << "Object", "Compact", FALSE, 0 >>
      [] c = \h51 -> << "Ref", "", FALSE, 0 >>
      [] OTHER -> << "Unknown", "", FALSE, 0 >>

UnknownTags == {\h40, \h45, \h47, \h50, \h5a}

\* C14: ByteCodecType::from gives every lead octet the kind and sub-encoding
\* of the tag table and keeps the octet; exactly 0x40, 0x45, 0x47, 0x50 and
\* 0x5A are Unknown, and read_value on a stream led by one of them fails with
\* UnknownType.
C14_TagTable ==
    \A k \in OpsOf("from_bytes") :
        With(inputs[k].v.b[1], LAMBDA c :
        With(ByteCodecType_from(c), LAMBDA t :
        /\ << t.k, t.sub, t.typed, t.length >> = TagTable(c)
        /\ t.c = c
        /\ t.k = "Unknown" <=> c \in UnknownTags
        /\ (Reads # << >> /\ c \in UnknownTags) =>
               ~Reads[1].ok /\ Reads[1].err = "UnknownType" /\ Len(Reads) = 1))

\* A stream led by 'Z' and followed by a String has been read.
C14_Witness ==
    /\ Len(inputs) = 1 /\ inputs[1].op = "from_bytes" /\ Reads # << >>
    /\ inputs[1].v.b = << \h5a, 1, 97 >>
    /\ Reads[1].err = "UnknownType"

\* The value of the compact form led by c with the payload bytes p:
\* ((c - base) << 8k) | payload, as a signed number.
CompactValue(c, base, p) ==
    IF Len(p) = 0 THEN c - base
    ELSE IF Len(p) = 1 THEN (c - base) * 256 + p[1]
    ELSE (c - base) * 65536 + p[1] * 256 + p[2]

\* The compact forms: lead bytes, base, payload length and kind.
CompactForms ==
    {[leads |-> \h80..\hbf, base |-> \h90, n |-> 0, long |-> FALSE],
     [leads |-> \hc0..\hcf, base |-> \hc8, n |-> 1, long |-> FALSE],
     [leads |-> \hd0..\hd7, base |-> \hd4, n |-> 2, long |-> FALSE],
     [leads |-> \hd8..\hef, base |-> \he0, n |-> 0, long |-> TRUE],
     [leads |-> \hf0..\hff, base |-> \hf8, n |-> 1, long |-> TRUE],
     [leads |-> \h38..\h3f, base |-> \h3c, n |-> 2, long |-> TRUE]}

\* C15: a compact Int or Long form decodes to the sign-extended value of its
\* formula: lead - 0x90, ((lead - 0xC8) << 8) | b, ((lead - 0xD4) << 16) |
\* (b1 << 8) | b0, and the same for Long with the bases 0xE0, 0xF8 and 0x3C.
C15_CompactForms ==
    \A k \in OpsOf("from_bytes") :
        With(inputs[k].v.b, LAMBDA b :
        \A form \in CompactForms :
            (Reads # << >> /\ b[1] \in form.leads /\ Len(b) >= 1 + form.n) =>
                With(CompactValue(b[1], form.base, SubSeq(b, 2, 1 + form.n)), LAMBDA n :
                /\ Reads[1].ok
                /\ Reads[1].pos = 1 + form.n
                /\ n \in (IF form.n = 0 THEN -16..47
                          ELSE IF form.n = 1 THEN -2048..2047 ELSE -262144..262143)
                /\ Reads[1].val = (IF form.long THEN VLong(I64(IF n < 0 THEN -1 ELSE 0, n))
                                   ELSE VInt(n))))

\* The least three-octet Int and the least two-octet Long have been read.
C15_Witness ==
    /\ Len(inputs) = 1 /\ inputs[1].op = "from_bytes" /\ Reads # << >>
    /\ \/ inputs[1].v.b = << \hd0, 0, 0 >> /\ Reads[1].val = VInt(-262144)
       \/ inputs[1].v.b = << \hf0, 0 >> /\ Reads[1].val = VLong(I64(-1, -2048))

---------------------------------------------------------------------------
(* Properties of the strings and chunks of crafted streams                 *)

\* The stream is a one-character string, compact or led by 'S', over the
\* payload p, and what follows it.
StringOver(b, p) ==
    \E head \in {<< 1 >>, << 83, 0, 1 >>} :
        /\ Len(b) >= Len(head \o p)
        /\ SubSeq(b, 1, Len(head \o p)) = head \o p

\* C16: decoding a string whose payload is not UTF-8 fails with the
\* invalid-UTF-8 error; no String is returned.
C16_InvalidUtf8 ==
    \A k \in OpsOf("from_bytes") :
        With(inputs[k], LAMBDA f :
        (Reads # << >> /\ \E p \in BadPayloads : StringOver(f.v.b, p)) =>
            ~Reads[1].ok /\ Reads[1].err = "FromUtf8Error")

\* The stream is the non-final chunk and then a byte that is no tag of kind.
ChunkThenOther(b, chunk, kind) ==
    /\ Len(b) > Len(chunk)
    /\ SubSeq(b, 1, Len(chunk)) = chunk
    /\ ByteCodecType_from(b[Len(chunk) + 1]).k # kind

\* C17: when a non-final string chunk is followed by a byte that is no string
\* tag, or a non-final binary chunk by a byte that is no binary tag, read_value
\* returns an error.
C17_ChunkContinuation ==
    \A k \in OpsOf("from_bytes") :
        With(inputs[k], LAMBDA f :
        (/\ Reads # << >>
         /\ \/ ChunkThenOther(f.v.b, << \h52, 0, 1, 97 >>, "String")
            \/ ChunkThenOther(f.v.b, << \h41, 0, 1, 7 >>, "Binary")) =>
            ~Reads[1].ok)

\* C18: for every byte string read_value returns a Value or an Error: it does
\* not panic, and every read_value consumes at least one byte.
C18_NoPanic ==
    \A k \in 1..Len(outputs) :
        (inputs[1].op = "from_bytes" /\ outputs[k].op = "read_value") =>
            /\ outputs[k].err # "panic"
            /\ outputs[k].pos > (IF k = 1 THEN 0 ELSE outputs[k - 1].pos)

\* The step is a call of peek_byte.
PeekStep ==
    /\ Len(outputs') = Len(outputs) + 1
    /\ outputs'[Len(outputs')].op = "peek_byte"

\* C19: peek_byte does not advance: after it the cursor position, the type
\* table and the definition table are as before; when it succeeded the next
\* read_byte returns the byte it returned, and it fails only at the end of the
\* input.
C19_PeekByte ==
    [][PeekStep =>
          /\ de'.pos = de.pos
          /\ de'.type_references = de.type_references
          /\ de'.class_references = de.class_references
          /\ outputs'[Len(outputs')].ok =>
                 /\ read_byte(de').ok
                 /\ VInt(read_byte(de').val) = outputs'[Len(outputs')].val
          /\ ~outputs'[Len(outputs')].ok => de.pos = Len(de.buffer)]_vars

\* peek_byte has returned a byte after a read_value that registered a class
\* definition and left the cursor inside the stream.
C19_Witness ==
    /\ outputs # << >>
    /\ outputs[Len(outputs)].op = "peek_byte" /\ outputs[Len(outputs)].ok
    /\ de.pos > 0 /\ de.class_references # << >>

---------------------------------------------------------------------------
(* Properties of the lists of the codec sessions                           *)

\* What write_type emits for the type tp of call k: the Int index of tp in the
\* type cache, or tp as a String.
TypeEncoding(k, tp) ==
    IF \E i \in 1..Len(inputs[k].types) : inputs[k].types[i] = tp
    THEN << \h90 + (CHOOSE i \in 1..Len(inputs[k].types) : inputs[k].types[i] = tp) - 1 >>
    ELSE << Len(tp) >> \o tp

\* What precedes the elements of the list of call k.
ListHead(k) ==
    With(Len(inputs[k].v.xs), LAMBDA n :
    With(IF type(inputs[k].v) = << >> THEN << >>
         ELSE TypeEncoding(k, type(inputs[k].v)[1]), LAMBDA tp :
    IF n <= 7
    THEN << (IF type(inputs[k].v) = << >> THEN \h78 ELSE \h70) + n >> \o tp
    ELSE << IF type(inputs[k].v) = << >> THEN \h58 ELSE \h56 >> \o tp \o << \h90 + n >>))

\* The elements of the list of call k are neither lists nor maps.
FlatList(k) == \A i \in 1..Len(inputs[k].v.xs) : inputs[k].v.xs[i].k \notin {"List", "Map"}

\* The encodings of the elements of the list of call k, one after the other.
ElementEncodings(k) ==
    Concat([i \in 1..Len(inputs[k].v.xs) |->
               serialize_value(NewSerializer(FALSE), inputs[k].v.xs[i]).writer])

\* C20: a list of n elements is emitted as 0x70+n and the type (typed) or
\* 0x78+n (untyped) when n <= 7, as 0x56, the type and Int(n) (typed) or 0x58
\* and Int(n) (untyped) when n >= 8, the type as write_type emits it; then
\* exactly the n element encodings, and no 'Z'.
C20_ListForm ==
    \A k \in OpsOf("serialize_value") :
        inputs[k].v.k = "List" =>
            /\ Len(Emitted(k)) >= Len(ListHead(k))
            /\ SubSeq(Emitted(k), 1, Len(ListHead(k))) = ListHead(k)
            /\ FlatList(k) => Emitted(k) = ListHead(k) \o ElementEncodings(k)

\* Two typed lists of one type, of 8 and of 7 elements, have been serialized.
C20_Witness ==
    /\ Len(inputs) = 2
    /\ \A k \in 1..2 : /\ inputs[k].op = "serialize_value"
                       /\ inputs[k].v.k = "List" /\ type(inputs[k].v) = << StrA >>
    /\ Len(inputs[1].v.xs) = 8 /\ Len(inputs[2].v.xs) = 7

---------------------------------------------------------------------------
(* Properties of the value sessions                                        *)

\* The variant a predicate or accessor is named after.
VariantOf ==
    [null |-> "Null", bool |-> "Bool", int |-> "Int", long |-> "Long",
     double |-> "Double", date |-> "Date", bytes |-> "Bytes", str |-> "String",
     ref |-> "Ref", list |-> "List", map |-> "Map"]

\* C21: each of is_null, is_bool, is_int, is_long, is_double, is_date,
\* is_bytes, is_str, is_ref, is_list and is_map is true of exactly the values
\* of the variant it names, and is true exactly when the as_ accessor of that
\* name gives Some.
C21_Predicates ==
    \A k \in 1..Len(outputs) :
        outputs[k].op = "is" =>
            \A n \in DOMAIN VariantOf :
                /\ outputs[k].is[n] = (inputs[k].a.k = VariantOf[n])
                /\ outputs[k].is[n] = (outputs[k].as[n] # << >>)

\* The kind classes in their stated order, and the numeric class.
Rank(v) ==
    CASE v.k = "Null" -> 0
      [] v.k \in {"Bool", "Int", "Long", "Double", "Date"} -> 1
      [] v.k = "Bytes" -> 2
      [] v.k = "String" -> 3
      [] v.k = "Ref" -> 4
      [] v.k = "List" -> 5
      [] v.k = "Map" -> 6

\* The number a numeric value that is not a NaN stands for: Bool as 0 or 1.
NumberOf(v) == IF v.k = "Double" THEN I64FromI32(v.a) ELSE AsI64(v)

\* C22: cmp puts a value of a lower kind class (Null, the numeric kinds,
\* Bytes, String, Ref, List, Map) before one of a higher class whatever they
\* hold, and orders two numeric values, none a NaN, by the numbers they stand
\* for, whatever their kinds.
C22_KindsAndNumbers ==
    \A k \in 1..Len(outputs) :
        outputs[k].op = "cmp" =>
            LET a == inputs[k].a
                b == inputs[k].b
            IN  /\ Rank(a) # Rank(b) => outputs[k].res = IntCmp(Rank(a), Rank(b))
                /\ (Rank(a) = 1 /\ Rank(b) = 1 /\ ~IsNaN(a) /\ ~IsNaN(b)) =>
                       outputs[k].res = I64Cmp(NumberOf(a), NumberOf(b))

Reverse(o) == CASE o = "Less" -> "Greater" [] o = "Greater" -> "Less" [] OTHER -> o

\* Whether the session compared a with b, then b with c, then a with c.
Compared(n) == Len(outputs) >= n /\ \A k \in 1..n : outputs[k].op = "cmp"

\* C23: cmp is a total order: a value is Equal to itself, cmp(b, a) is the
\* reverse of cmp(a, b), and cmp(a, b), cmp(b, c) fix cmp(a, c); a NaN Double
\* is Less than every other numeric value and they are Greater than it.
C23_TotalOrder ==
    /\ \A k \in 1..Len(outputs) :
           outputs[k].op = "cmp" =>
               LET a == inputs[k].a
                   b == inputs[k].b
               IN  /\ a = b => outputs[k].res = "Equal"
                   /\ (IsNaN(a) /\ Rank(b) = 1 /\ ~IsNaN(b)) => outputs[k].res = "Less"
                   /\ (IsNaN(b) /\ Rank(a) = 1 /\ ~IsNaN(a)) => outputs[k].res = "Greater"
    /\ (Compared(2) /\ inputs[2].b = inputs[1].a) =>
           outputs[2].res = Reverse(outputs[1].res)
    /\ Compared(3) =>
           /\ (outputs[1].res # "Greater" /\ outputs[2].res # "Greater") =>
                  outputs[3].res # "Greater"
           /\ (outputs[1].res # "Less" /\ outputs[2].res # "Less") =>
                  outputs[3].res # "Less"
           /\ (outputs[1].res = "Equal" /\ outputs[2].res = "Equal") =>
                  outputs[3].res = "Equal"

\* The entries of a Map, whatever the order its HashMap yields them in.
EntriesOf(m) == {m.xs[i] : i \in 1..Len(m.xs)}

\* Whether the k-th call equated two Maps.
MapsEquated(k) ==
    outputs[k].op = "eq" /\ inputs[k].a.k = "Map" /\ inputs[k].b.k = "Map"

\* C29: two Maps that hold the same entries are equal, whatever the order in
\* which their HashMaps yield the entries, also when keys compare Equal across
\* kinds (Int 1, Long 1) or are Bools.
C29_MapOrder ==
    \A k \in 1..Len(outputs) :
        (/\ MapsEquated(k)
         /\ type(inputs[k].a) = type(inputs[k].b)
         /\ EntriesOf(inputs[k].a) = EntriesOf(inputs[k].b)) => outputs[k].res

\* C30: a Map with a type name and a Map without one, or two Maps with
\* different type names, are not equal, whatever their entries.
C30_MapTypeName ==
    \A k \in 1..Len(outputs) :
        (MapsEquated(k) /\ type(inputs[k].a) # type(inputs[k].b)) => ~outputs[k].res

---------------------------------------------------------------------------
(* Properties of the crafted binary chains                                 *)

\* C24: read_value over a chain of non-final chunks (0x41) ended by a final
\* chunk ('B') or a compact binary gives the Bytes that is the payloads of the
\* chunks in order, for every chunk length up to 0xFFFF, and leaves the cursor
\* just after the last payload byte.
C24_ChunkChain ==
    (Len(inputs) = 1 /\ inputs[1].op = "from_chunks" /\ Len(outputs) >= 1) =>
        /\ outputs[1].ok
        /\ outputs[1].val = VBytes(inputs[1].payload)
        /\ outputs[1].pos = inputs[1].end

---------------------------------------------------------------------------
(* Properties of the crafted lists and maps                                *)

\* The entries the pairs of a stream make: each key with the value of the last
\* pair that has it.
PairEntries(items) ==
    {<< items[2 * i - 1], items[2 * i] >> : i \in {j \in 1..Len(items) \div 2 :
        \A l \in j + 1..Len(items) \div 2 : items[2 * l - 1] # items[2 * j - 1]}}

\* C25: read_value over a variable-length list (0x55 with a type, 0x57) or
\* map ('M' with a type, 'H') reads elements or pairs up to the next 'Z',
\* consumes that 'Z' and no more, and gives the elements in stream order; the
\* next read_value starts after the 'Z'; an input that ends before the 'Z'
\* gives an error.
C25_VarLength ==
    (Len(inputs) = 1 /\ inputs[1].op = "from_container" /\ Len(outputs) >= 1) =>
        LET c == inputs[1]
            r == outputs[1]
        IN  IF c.whole
            THEN /\ r.ok /\ r.val.k = c.kind /\ type(r.val) = c.t
                 /\ c.kind = "List" => r.val.xs = c.items
                 /\ c.kind = "Map" => EntriesOf(r.val) = PairEntries(c.items)
                 /\ r.pos = c.end /\ c.v.b[r.pos] = 90
                 /\ Len(outputs) >= 2 =>
                        outputs[2].ok /\ outputs[2].val = VInt(1)
                        /\ outputs[2].pos = c.end + 1
            ELSE ~r.ok

\* A typed list of two elements and a map of two pairs were read, each with
\* the value after its 'Z'.
C25_Witness ==
    /\ Len(inputs) = 1 /\ inputs[1].op = "from_container" /\ inputs[1].whole
    /\ Len(inputs[1].items) >= 2
    /\ inputs[1].t # << >>
    /\ Len(outputs) = 2 /\ outputs[2].ok

---------------------------------------------------------------------------
(* Properties of the serde sessions                                        *)

\* The structs in a value, itself included.
RECURSIVE StructsIn(_)
StructsIn(v) ==
    (IF v.k = "Struct" THEN {v} ELSE {})
    \cup UNION {StructsIn(v.fs[i][2]) : i \in 1..Len(v.fs)}

\* The type of a value: the value with every i32 set to 0.
RECURSIVE TypeOf(_)
TypeOf(v) ==
    CASE v.k = "Int" -> SInt(0)
      [] v.k = "Seq" -> SSeq([i \in 1..Len(v.fs) |-> TypeOf(v.fs[i][2])])
      [] v.k = "Struct" ->
            SStruct(v.name, [i \in 1..Len(v.fs) |-> << v.fs[i][1], TypeOf(v.fs[i][2]) >>])

\* Whether v is a value of Rust types in which a struct name stands for one
\* struct type: structs of one name have the same fields of the same types,
\* and the elements of a Vec are of one type.
RECURSIVE OneType(_)
OneType(v) ==
    /\ \A x, y \in StructsIn(v) : x.name = y.name => TypeOf(x) = TypeOf(y)
    /\ v.k = "Seq" => \A i, j \in 1..Len(v.fs) : TypeOf(v.fs[i][2]) = TypeOf(v.fs[j][2])
    /\ \A i \in 1..Len(v.fs) : OneType(v.fs[i][2])

\* The Value that stands in the stream for v when every object tag refers to
\* the definition of its own struct: a struct as the Map of its field names.
RECURSIVE AsValue(_)
AsValue(v) ==
    CASE v.k = "Int" -> VInt(v.a)
      [] v.k = "Seq" -> VList(<< >>, [i \in 1..Len(v.fs) |-> AsValue(v.fs[i][2])])
      [] v.k = "Struct" ->
            VMap(<< >>, [i \in 1..Len(v.fs) |->
                            << VString(v.fs[i][1]), AsValue(v.fs[i][2]) >>])

\* Whether the session serialized a value of Rust types with to_vec and read
\* the bytes back: op is "read_value" or "from_slice".
ReadBack(op) ==
    /\ Len(inputs) = 1 /\ inputs[1].op = "to_vec" /\ OneType(inputs[1].v)
    /\ Len(outputs) = 1 /\ outputs[1].op = op

\* C26: in the bytes of one to_vec call the class definition of a struct type
\* is written once at most and before its first instance, and every object
\* tag carries the index its definition has among the definitions of the
\* stream, at whatever depth the struct is; so reading the stream as a Value
\* gives each struct as the Map of its own fields, and from_slice gives the
\* value back.
C26_StructDefinitions ==
    /\ ReadBack("read_value") =>
           /\ outputs[1].ok
           /\ SameValue(outputs[1].val, AsValue(inputs[1].v))
           /\ \A i, j \in 1..Len(de.class_references) :
                  de.class_references[i].name = de.class_references[j].name => i = j
    /\ ReadBack("from_slice") =>
           outputs[1].ok /\ outputs[1].val = inputs[1].v

\* The field names of a struct, in order.
KeysOf(v) == [i \in 1..Len(v.fs) |-> v.fs[i][1]]

\* Whether the session serialized a Vec of two structs of i32 fields that go
\* by one name: the second is serialized with the definition of the first in
\* the cache.
UnderCachedName ==
    /\ Len(inputs) = 1 /\ inputs[1].op = "to_vec"
    /\ inputs[1].v.k = "Seq" /\ Len(inputs[1].v.fs) = 2
    /\ \A i \in 1..2 : inputs[1].v.fs[i][2] \in FlatStructs
    /\ inputs[1].v.fs[1][2].name = inputs[1].v.fs[2][2].name

\* C27: a struct serialized under a name whose definition is cached gives an
\* error when its keys are not those of the cached definition (another key,
\* more fields, fewer fields); the call never panics, and no object instance
\* is written whose number of values is not the cached number of fields.
C27_FieldMismatch ==
    UnderCachedName =>
        LET first == inputs[1].v.fs[1][2]
            second == inputs[1].v.fs[2][2]
        IN  /\ ser.st # "panic"
            /\ KeysOf(second) # KeysOf(first) => ser.st = "err"
            /\ ser.st = "ok" => Len(second.fs) = Len(get_definition(ser, first.name)[1].fields)

---------------------------------------------------------------------------
(* Properties of the type tables of a session that encodes and decodes     *)

\* The type names of a value in the order write_type is called for them: the
\* name of a typed list or map, then those of its elements, resp. of its keys
\* and values entry by entry.
RECURSIVE TypesOf(_)
RECURSIVE TypesOfItems(_, _, _)
TypesOfItems(xs, map, i) ==
    IF i > Len(xs) THEN << >>
    ELSE (IF map THEN TypesOf(xs[i][1]) \o TypesOf(xs[i][2]) ELSE TypesOf(xs[i]))
         \o TypesOfItems(xs, map, i + 1)

TypesOf(v) ==
    IF v.k \in {"List", "Map"}
    THEN type(v) \o TypesOfItems(v.xs, v.k = "Map", 1)
    ELSE << >>

\* The names written so far that were already in type_cache when written: the
\* type references emitted as an Int.
RECURSIVE Repeats(_)
Repeats(names) ==
    IF names = << >> THEN {}
    ELSE LET init == SubSeq(names, 1, Len(names) - 1)
         IN  Repeats(init)
             \cup (IF \E i \in 1..Len(init) : init[i] = names[Len(names)]
                   THEN {Len(names)} ELSE {})

ValuesEncoded ==
    /\ phase = "decode"
    /\ \A k \in 1..Len(inputs) : inputs[k].op = "serialize_value"

====
